---- MODULE Spec2Model ----
(***************************************************************************)
(* GiantWizard/wiz.  The recipe resolvers: build_recipe_tree and            *)
(* collect_raw_items of recipe.py, get_recipe_tree / flatten_recipe of      *)
(* backend/testing/engine.py, get_full_recipe / get_optimal_recipe of       *)
(* backend/testing/test.py; the recipe data and the price tables are the    *)
(* inputs and every action is one top-level call, whose result is recorded. *)
(* The loaders and analysers: load_recipes, calculate_profit_for_item of    *)
(* gg.py and zzz/gg.py, analyze_folder with its worker threads.  The        *)
(* background tasks: run_volatility_analysis of server10/fetchur.py and     *)
(* update_fusion_data of bot-test/old/flipper_bot.py.                       *)
(***************************************************************************)
EXTENDS Integers, Sequences, FiniteSets, TLC

VARIABLES program, data, recipes, prices, lbin, market, call, result, earlier,
          threads, heap,
          files, filter_print_count, detailed, futures, final_aggregated_stats,
          cycle_count, item_states, item_analytics, shared_data,
          profit_report_cache, parsed_recipes, task

\* the state of the recipe resolvers
resolvers == <<data, recipes, prices, lbin, market, earlier, threads, heap>>

\* the state of the profit analysers of gg.py and zzz/gg.py
analysers == <<filter_print_count, detailed, futures, final_aggregated_stats>>

\* the state of the background tasks of fetchur.py and flipper_bot.py
fetchers == <<cycle_count, item_states, item_analytics, shared_data,
              profit_report_cache, parsed_recipes, task>>

\* the state of the loaders, analysers and background tasks
others == <<files, analysers, fetchers>>

vars == <<program, call, result, resolvers, others>>

\* no profit analyser has state
AnalysersIdle ==
    /\ filter_print_count = 0
    /\ detailed = 0
    /\ futures = <<>>
    /\ final_aggregated_stats = <<>>

\* no background task has state
FetchersIdle ==
    /\ cycle_count = 0
    /\ item_states = <<>>
    /\ item_analytics = <<>>
    /\ shared_data = <<>>
    /\ profit_report_cache = <<>>
    /\ parsed_recipes = <<>>
    /\ task = "none"

\* a resolver run: no loader, analyser or background task has state
OthersIdle ==
    /\ files = <<>>
    /\ AnalysersIdle
    /\ FetchersIdle

\* a run of another program: the resolvers have no state
ResolversIdle ==
    /\ data = <<>>
    /\ recipes = <<>>
    /\ prices = <<>>
    /\ lbin = <<>>
    /\ market = <<>>
    /\ earlier = <<>>
    /\ threads = <<>>
    /\ heap = <<>>

(* ------------------------------ bounds -------------------------------- *)

\* item ids of the recipe graph
Items == {"A", "B", "C"}

\* largest quantity written in a recipe slot ("<item>:<count>")
MaxQty == 2

\* largest max_depth a caller of get_recipe_tree passes explicitly
MaxDepthArg == 3

\* largest declared output quantity of a recipe ("count")
MaxOutput == 2

\* call depth at which the interpreter gives up (RecursionError); stands for
\* sys.getrecursionlimit(), far above the number of items
RecursionLimit == 6

\* largest hourly rate of a bazaar product
MaxRate == 2

\* price values: 0 stands for "no entry in the table"; 1 is the largest
\* value recipe.py treats as "no price" (its tests are price > 1)
PriceValues == {0, 1, 2, 4}

(* ----------------------------- recipes -------------------------------- *)

\* A filled slot of a recipe is a string "ITEM:2" in the recipe files. The
\* model keeps it split at the colon: the item id and the quantity part,
\* which is a text until the code converts it.
QuantityText(n) == ToString(n)

\* the slot "i:q" for a number q
Slot(i, q) == [item |-> i, qty |-> QuantityText(q)]

\* quantity parts that are no digit strings, as in "ITEM:x" and "ITEM:1.5"
MalformedTexts == {"x", "1.5"}

\* str.isdigit on a quantity part
isdigit(text) == \E n \in 0..MaxQty : QuantityText(n) = text

\* int(text) for a text that parses; on the other texts int raises ValueError
int(text) == CHOOSE n \in 0..MaxQty : QuantityText(n) = text

\* recipe.py line 93: count = int(count) if count.isdigit() else 1
CountOrOne(text) == IF isdigit(text) THEN int(text) ELSE 1

Slots1 == {<<Slot(i, q)>> : i \in Items, q \in 1..MaxQty}

Slots2 == {<<Slot(i, q), Slot(j, 1)>> : i \in Items, j \in Items, q \in 1..MaxQty}

Recipe(c, s) == [count |-> c, slots |-> s]

(* ---------------------- recipe.py: build_recipe_tree ------------------ *)

\* fetch_lowest_auction_price(item, lbin_data) or 0
\* mutant: the auction table is never consulted
fetch_lowest_auction_price_none(item_name) == 0

fetch_lowest_auction_price(item_name) == lbin[item_name]

\* prices.get(item_id, {"price": 0})["price"] / prices.get(item_id, {}).get("price", 0)
bazaar_price_of(item_id) == prices[item_id]

Leaf(name, note, cost) ==
    [name |-> name, count |-> 1, note |-> note, cost |-> cost, children |-> <<>>]

\* index of name in the merged list, 0 when absent
RECURSIVE IndexOf(_, _, _)
IndexOf(merged, name, i) ==
    IF i > Len(merged) THEN 0
    ELSE IF merged[i].name = name THEN i
    ELSE IndexOf(merged, name, i + 1)

\* merged_ingredients[name] += count over the slots, in insertion order
RECURSIVE MergeSlots(_, _)
MergeSlots(slots, merged) ==
    IF slots = <<>> THEN merged
    ELSE LET s == Head(slots)
             k == IndexOf(merged, s.item, 1)
         IN  IF k = 0
             THEN MergeSlots(Tail(slots), Append(merged, [name |-> s.item, count |-> CountOrOne(s.qty)]))
             ELSE MergeSlots(Tail(slots),
                     [merged EXCEPT ![k] = [name |-> s.item,
                                            count |-> merged[k].count + CountOrOne(s.qty)]])

merged_ingredients(recipe) == MergeSlots(recipe.slots, <<>>)

\* first child whose cost is above 1 and strictly above every earlier one
RECURSIVE HighestPriced(_, _, _)
HighestPriced(children, i, best) ==
    IF i > Len(children) THEN best
    ELSE LET c == children[i]
             bestCost == IF best = <<>> THEN 0 ELSE best[1].cost
         IN  IF c.cost > 1 /\ c.cost > bestCost
             THEN HighestPriced(children, i + 1, <<c>>)
             ELSE HighestPriced(children, i + 1, best)

\* mutant: the slot quantity is left out of the crafting cost
RECURSIVE SumCostIgnoresCount(_, _)
SumCostIgnoresCount(children, i) ==
    IF i > Len(children) THEN 0
    ELSE children[i].cost + SumCostIgnoresCount(children, i + 1)

\* total_craft_cost += child.get("cost", 0) * count
RECURSIVE SumCost(_, _)
SumCost(children, i) ==
    IF i > Len(children) THEN 0
    ELSE children[i].cost * children[i].count + SumCost(children, i + 1)

RECURSIVE SumCount(_, _)
SumCount(merged, i) ==
    IF i > Len(merged) THEN 0 ELSE merged[i].count + SumCount(merged, i + 1)

Raised(visited) == [raised |-> TRUE, tree |-> Leaf("", "RecursionError", 0), visited |-> visited]

Return(tree, visited) == [raised |-> FALSE, tree |-> tree, visited |-> visited]

\* mutant: the item is never recorded as being resolved
VisitedAddForgets(visited, item_id) == visited

\* mutant: only the item itself is recorded, its ancestors are dropped
VisitedAddReplaces(visited, item_id) == {item_id}

\* visited.add(item_id) at line 88
VisitedAdd(visited, item_id) == visited \cup {item_id}

\* mutant: the item stays in the set when the call returns
VisitedRemoveNothing(visited, item_id) == visited

\* visited.remove(item_id) at lines 111, 139, 206
VisitedRemove(visited, item_id) == visited \ {item_id}

\* mutant: on equal costs the craft node is kept
BuyDirectlyStrict(total_craft_cost, bazaar_price) == total_craft_cost > bazaar_price

\* the first result of each resolved item of a session, where they are kept
Untracked == [kept |-> FALSE]

NotYet == [kept |-> TRUE]

\* the top-level resolve calls
ResolveCalls == {"build_recipe_tree", "get_optimal_recipe"}

\* the items resolved by earlier top-level calls of the session
ResolvedBefore == {i \in Items : earlier[i] \notin {Untracked, NotYet}}

\* mutant: one visited set is kept for all top-level calls and the items
\* resolved before stay in it
TopLevelVisitedKept(before) == before

\* if visited is None: visited = set()
TopLevelVisited(before) == {}

\* the comparison of lines 178 and 190: buy directly when crafting is not cheaper
BuyDirectly(total_craft_cost, bazaar_price) == total_craft_cost >= bazaar_price

\* mutant: a recipe with several outputs is expanded like any other
SkipMultipleOutputNever(output_count) == FALSE

\* the test of line 83
SkipMultipleOutput(output_count) == output_count > 1

\* the test of line 57
InAncestors(item_id, visited) == item_id \in visited

\* mutant: a repeated item is returned as an ordinary base item
CycleLeafAsBase(item_id) == Leaf(item_id, "base item", bazaar_price_of(item_id))

\* the node of lines 58-64
CycleLeaf(item_id) == Leaf(item_id, "base item (cycle detected)", bazaar_price_of(item_id))

RECURSIVE build_recipe_tree(_, _, _)
RECURSIVE BuildChildren(_, _, _, _)

\* the loops of lines 131-132 and 145-146: one call per merged ingredient, all on
\* the one shared visited set
BuildChildren(merged, i, visited, depth) ==
    IF i > Len(merged) THEN [raised |-> FALSE, trees |-> <<>>, visited |-> visited]
    ELSE LET r == build_recipe_tree(merged[i].name, visited, depth)
         IN  IF r.raised THEN [raised |-> TRUE, trees |-> <<>>, visited |-> r.visited]
             ELSE LET rest == BuildChildren(merged, i + 1, r.visited, depth)
                  IN  [raised |-> rest.raised,
                       trees |-> <<r.tree>> \o rest.trees,
                       visited |-> rest.visited]

build_recipe_tree(item_id, visited, depth) ==
    IF depth = 0 THEN Raised(visited)
    ELSE IF InAncestors(item_id, visited)
    THEN Return(CycleLeaf(item_id), visited)
    ELSE IF data[item_id] = <<>>
    THEN IF bazaar_price_of(item_id) = 0
         THEN LET auction_price == fetch_lowest_auction_price(item_id)
              IN  Return(Leaf(item_id,
                              IF auction_price # 0 THEN "base item (from auction)"
                                                   ELSE "base item (no price)",
                              auction_price), visited)
         ELSE Return(Leaf(item_id, "base item", bazaar_price_of(item_id)), visited)
    ELSE
    LET recipe == data[item_id][1]
        output_count == recipe.count
    IN
    IF SkipMultipleOutput(output_count)
    THEN Return(Leaf(item_id, "base item (multiple output)", bazaar_price_of(item_id)), visited)
    ELSE
    LET merged == merged_ingredients(recipe)
        v1 == VisitedAdd(visited, item_id)
        all_components_no_price ==
            \A k \in 1..Len(merged) :
                ~(bazaar_price_of(merged[k].name) > 1
                  \/ fetch_lowest_auction_price(merged[k].name) > 1)
        bazaar_price == bazaar_price_of(item_id)
        auction_price == fetch_lowest_auction_price(item_id)
    IN
    IF all_components_no_price /\ (bazaar_price > 1 \/ auction_price > 1)
    THEN Return(Leaf(item_id, "base item (components have no price)",
                     IF bazaar_price > 1 THEN bazaar_price ELSE auction_price),
                VisitedRemove(v1, item_id))
    ELSE IF bazaar_price <= 1 /\ auction_price <= 1
    THEN \* lines 124-142: the item has no price
         LET kids == BuildChildren(merged, 1, v1, depth - 1)
             highest == HighestPriced(kids.trees, 1, <<>>)
         IN  IF kids.raised THEN Raised(kids.visited)
             ELSE IF highest # <<>>
             THEN Return(highest[1], VisitedRemove(kids.visited, item_id))
             ELSE Return(Leaf(item_id, "base item (no price)", 0),
                         VisitedRemove(kids.visited, item_id))
    ELSE \* lines 144-207: normal crafting costs
         LET kids == BuildChildren(merged, 1, v1, depth - 1)
             children == [k \in 1..Len(kids.trees) |->
                             [kids.trees[k] EXCEPT !.count = merged[k].count]]
             total_craft_cost == SumCost(children, 1)
             total_items == SumCount(merged, 1)
             crafted(note) == [name |-> item_id, count |-> 1, note |-> note,
                               cost |-> total_craft_cost, children |-> children]
             tree ==
                 IF bazaar_price > 0
                 THEN IF BuyDirectly(total_craft_cost, bazaar_price)
                      THEN Leaf(item_id, "purchased directly", bazaar_price)
                      ELSE crafted("crafting")
                 ELSE crafted("crafting (no bazaar price)")
         IN  IF kids.raised THEN Raised(kids.visited)
             ELSE Return(tree, VisitedRemove(kids.visited, item_id))

(* ------------- recipe.py: build_recipe_tree, step by step -------------- *)

\* Two callers run build_recipe_tree side by side. A caller is a stack of
\* frames, one per active call; the visited set is an object on the heap that
\* every frame of a caller refers to, because the recursive calls pass the
\* same set object on. A step is a stretch of the function between two
\* accesses to its visited set or two calls.
Threads == {1, 2}

NoTree == Leaf("", "", 0)

Idle == [item |-> "", visited |-> 0, stack |-> <<>>, state |-> "off",
         tree |-> NoTree, crossed |-> FALSE]

NoThreads == [t \in Threads |-> Idle]

NoHeap == [o \in Threads |-> {}]

\* mutant: every top-level call works on one and the same set object
VisitedObjectShared(t) == 1

\* if visited is None: visited = set() -- a new object for each top-level call
VisitedObject(t) == t

Frame(item_id) == [item |-> item_id, pc |-> "enter", kids |-> <<>>]

TopLevelCall(t, item_id) ==
    [item |-> item_id, visited |-> VisitedObject(t), stack |-> <<Frame(item_id)>>,
     state |-> "running", tree |-> NoTree, crossed |-> FALSE]

TopFrame(th) == th.stack[Len(th.stack)]

\* a return statement: the value goes to the calling frame, or ends the caller
ReturnTo(th, tree) ==
    LET rest == SubSeq(th.stack, 1, Len(th.stack) - 1)
    IN  IF rest = <<>>
        THEN [th EXCEPT !.stack = <<>>, !.state = "done", !.tree = tree]
        ELSE [th EXCEPT !.stack = [rest EXCEPT ![Len(rest)].kids = Append(@, tree)]]

\* the node of lines 66-77 for an item without a recipe
BaseLeaf(item_id) ==
    IF bazaar_price_of(item_id) = 0
    THEN LET auction_price == fetch_lowest_auction_price(item_id)
         IN  Leaf(item_id,
                  IF auction_price # 0 THEN "base item (from auction)"
                                       ELSE "base item (no price)",
                  auction_price)
    ELSE Leaf(item_id, "base item", bazaar_price_of(item_id))

\* lines 96-103
AllComponentsNoPrice(merged) ==
    \A k \in 1..Len(merged) :
        ~(bazaar_price_of(merged[k].name) > 1
          \/ fetch_lowest_auction_price(merged[k].name) > 1)

\* the test of lines 106-110
ItemHasPrice(item_id) ==
    bazaar_price_of(item_id) > 1 \/ fetch_lowest_auction_price(item_id) > 1

\* the node of lines 112-117
ComponentsNoPriceLeaf(item_id) ==
    Leaf(item_id, "base item (components have no price)",
         IF bazaar_price_of(item_id) > 1 THEN bazaar_price_of(item_id)
         ELSE fetch_lowest_auction_price(item_id))

\* the value returned at lines 135-142 or 207 once every ingredient is resolved
FinishedNode(item_id, merged, trees) ==
    LET bazaar_price == bazaar_price_of(item_id)
        auction_price == fetch_lowest_auction_price(item_id)
    IN  IF bazaar_price <= 1 /\ auction_price <= 1
        THEN LET highest == HighestPriced(trees, 1, <<>>)
             IN  IF highest # <<>> THEN highest[1]
                 ELSE Leaf(item_id, "base item (no price)", 0)
        ELSE LET children == [k \in 1..Len(trees) |->
                                 [trees[k] EXCEPT !.count = merged[k].count]]
                 total_craft_cost == SumCost(children, 1)
                 crafted(note) == [name |-> item_id, count |-> 1, note |-> note,
                                   cost |-> total_craft_cost, children |-> children]
             IN  IF bazaar_price > 0
                 THEN IF BuyDirectly(total_craft_cost, bazaar_price)
                      THEN Leaf(item_id, "purchased directly", bazaar_price)
                      ELSE crafted("crafting")
                 ELSE crafted("crafting (no bazaar price)")

\* the other caller holds the item in its visited set right now
HeldByOther(t, item_id) ==
    \E u \in Threads \ {t} :
        threads[u].state = "running" /\ item_id \in heap[threads[u].visited]

(* ------------------------- exact quantities --------------------------- *)

\* Quantities and costs of the backend/testing code are Python floats produced
\* by multiplying by slot counts and dividing by output counts; they are kept
\* here as reduced fractions <<numerator, denominator>>.
RECURSIVE GCD(_, _)
GCD(a, b) == IF b = 0 THEN a ELSE GCD(b, a % b)

Rat(n, d) == LET g == GCD(n, d) IN IF n = 0 THEN <<0, 1>> ELSE <<n \div g, d \div g>>

RZero == <<0, 1>>

ROne == <<1, 1>>

RAdd(x, y) == Rat(x[1] * y[2] + y[1] * x[2], x[2] * y[2])

RMulInt(x, k) == Rat(x[1] * k, x[2])

RDivInt(x, k) == Rat(x[1], x[2] * k)

RMul(x, y) == Rat(x[1] * y[1], x[2] * y[2])

RGeq(x, y) == x[1] * y[2] >= y[1] * x[2]

\* a dict / Counter item -> quantity; RZero stands for "key absent"
EmptyPlan == [i \in Items |-> RZero]

Single(item_name) == [i \in Items |-> IF i = item_name THEN ROne ELSE RZero]

Keys(plan) == {i \in Items : plan[i] # RZero}

\* result[k] += plan[k] * count for every key of plan
AddScaled(acc, plan, count) == [i \in Items |-> RAdd(acc[i], RMulInt(plan[i], count))]

\* sum over a set of items of f[i]
RECURSIVE RSum(_, _)
RSum(f, S) ==
    IF S = {} THEN RZero
    ELSE LET i == CHOOSE x \in S : TRUE IN RAdd(f[i], RSum(f, S \ {i}))

(* --------- recipe.py: collect_raw_items, find_longest_to_fill ---------- *)

\* raw_items is a dict in insertion order: a list of (name, quantity) entries
RECURSIVE RawIndex(_, _, _)
RawIndex(raw_items, name, i) ==
    IF i > Len(raw_items) THEN 0
    ELSE IF raw_items[i].name = name THEN i
    ELSE RawIndex(raw_items, name, i + 1)

\* raw_items[name] += quantity
AddRaw(raw_items, name, quantity) ==
    LET k == RawIndex(raw_items, name, 1)
    IN  IF k = 0 THEN Append(raw_items, [name |-> name, quantity |-> quantity])
        ELSE [raw_items EXCEPT ![k].quantity = @ + quantity]

\* "cycle detected" in str(tree.get("note", ""))
cycle_detected(note) == note = "base item (cycle detected)"

\* mutant: a cycle-detected leaf is counted like any other leaf
CycleLeafQuantityScaled(count, multiplier) == count * multiplier

\* raw_items[tree["name"]] += 1  # Always add just 1 for cycle-detected items
CycleLeafQuantity(count, multiplier) == 1

\* mutant: the multiplier of the path is dropped
LeafQuantityUnscaled(count, multiplier) == count

\* raw_items[tree["name"]] += tree["count"] * multiplier
LeafQuantity(count, multiplier) == count * multiplier

RECURSIVE collect_raw_items(_, _, _)
RECURSIVE CollectChildren(_, _, _, _)

CollectChildren(children, k, multiplier, raw_items) ==
    IF k > Len(children) THEN raw_items
    ELSE CollectChildren(children, k + 1, multiplier,
            collect_raw_items(children[k], multiplier, raw_items))

collect_raw_items(tree, multiplier, raw_items) ==
    IF tree.children = <<>> \/ tree.note = "purchased directly"
    THEN IF cycle_detected(tree.note)
         THEN AddRaw(raw_items, tree.name, CycleLeafQuantity(tree.count, multiplier))
         ELSE AddRaw(raw_items, tree.name, LeafQuantity(tree.count, multiplier))
    ELSE CollectChildren(tree.children, 1, multiplier * tree.count, raw_items)

\* longest_item = None
NoLongest ==
    [found |-> FALSE, item |-> "", quantity |-> 0, price |-> 0,
     time_to_fill |-> RZero, method |-> ""]

\* mutant: materials bought by Instabuy are not skipped
SkipsMaterialNever(method) == FALSE

\* if method == "Instabuy": continue
SkipsMaterial(method) == method = "Instabuy"

\* the loop of lines 260-278 from entry k on; longest_time is longest.time_to_fill
RECURSIVE LongestFrom(_, _, _)
LongestFrom(raw_items, k, longest) ==
    IF k > Len(raw_items) THEN longest
    ELSE LET item == raw_items[k].name
             quantity == raw_items[k].quantity
             method == market[item].method
             hourly_instasells == market[item].hourly_instasells
             time_to_fill == Rat(quantity, hourly_instasells)
         IN  IF SkipsMaterial(method) THEN LongestFrom(raw_items, k + 1, longest)
             ELSE IF hourly_instasells > 0 /\ ~RGeq(longest.time_to_fill, time_to_fill)
             THEN LongestFrom(raw_items, k + 1,
                     [found |-> TRUE, item |-> item, quantity |-> quantity,
                      price |-> prices[item], time_to_fill |-> time_to_fill,
                      method |-> method])
             ELSE LongestFrom(raw_items, k + 1, longest)

find_longest_to_fill(raw_items) == LongestFrom(raw_items, 1, NoLongest)

\* main, option 1: the tree, its raw items and the slowest material
ViewRecipeTree(item_id) ==
    LET built == build_recipe_tree(item_id, TopLevelVisited(ResolvedBefore), RecursionLimit)
        raw_items == IF built.raised THEN <<>> ELSE collect_raw_items(built.tree, 1, <<>>)
    IN  [raised |-> built.raised, tree |-> built.tree, visited |-> built.visited,
         raw_items |-> raw_items,
         longest_to_fill |-> find_longest_to_fill(raw_items)]

(* ------------------ backend/testing/engine.py: trees ------------------ *)

\* def get_recipe_tree(item_name, recipes, visited=None, max_depth=20)
DefaultMaxDepth == 20

\* def query_recipe_with_prices(item_name, recipes, bazaar_prices, depth=3)
QueryDepth == 3

\* mutant: a recipe naming its own output item is accepted
is_valid_recipe_any(recipe, item_name) == TRUE

is_valid_recipe(recipe, item_name) ==
    \A k \in 1..Len(recipe.slots) : recipe.slots[k].item # item_name

valid_recipes(item_name) ==
    SelectSeq(recipes[item_name], LAMBDA r : is_valid_recipe(r, item_name))

\* recipe = valid_recipes[0]
ChosenTreeRecipe(item_name) == valid_recipes(item_name)[1]

BaseNode(item_name) ==
    [item |-> item_name, kind |-> "base", output_count |-> 1, ingredients |-> <<>>]

CircularNode(item_name) ==
    [item |-> item_name, kind |-> "circular", output_count |-> 1, ingredients |-> <<>>]

\* visited = visited.copy(); visited.add(item_name)
TreeVisited(visited, item_name) == visited \cup {item_name}

\* a call that ended in an exception instead of returning a tree
RaisedNode(item_name, error) ==
    [item |-> item_name, kind |-> error, output_count |-> 1, ingredients |-> <<>>]

\* line 128: count = int(parts[1]) converts every filled slot of the recipe
SlotsParse(recipe) == \A k \in 1..Len(recipe.slots) : isdigit(recipe.slots[k].qty)

\* mutant: the recursive call hands max_depth on undiminished
DepthLeftSame(max_depth) == max_depth

\* line 135: the max_depth of the recursive call
DepthLeft(max_depth) == max_depth - 1

RECURSIVE get_recipe_tree(_, _, _)
get_recipe_tree(item_name, visited, max_depth) ==
    IF item_name \in visited THEN CircularNode(item_name)
    ELSE IF recipes[item_name] = <<>> \/ max_depth <= 0 THEN BaseNode(item_name)
    ELSE IF valid_recipes(item_name) = <<>> THEN BaseNode(item_name)
    ELSE
    LET visited1 == TreeVisited(visited, item_name)
        recipe == ChosenTreeRecipe(item_name)
        ingredient_counts == merged_ingredients(recipe)
        ingredients ==
            [k \in 1..Len(ingredient_counts) |->
                [item |-> ingredient_counts[k].name,
                 count |-> ingredient_counts[k].count,
                 sub_recipe |->
                    IF max_depth > 1
                    THEN get_recipe_tree(ingredient_counts[k].name, visited1, DepthLeft(max_depth))
                    ELSE BaseNode(ingredient_counts[k].name)]]
    IN  IF ~SlotsParse(recipe) THEN RaisedNode(item_name, "ValueError")
        ELSE IF \E k \in 1..Len(ingredients) : ingredients[k].sub_recipe.kind = "ValueError"
        THEN RaisedNode(item_name, "ValueError")
        ELSE [item |-> item_name,
              kind |-> "craft",
              output_count |-> recipe.count,
              ingredients |-> ingredients]

\* the multiplier handed to a crafted sub-recipe (line 171)
NewMultiplier(multiplier, count, output_count) ==
    RDivInt(RMulInt(multiplier, count), output_count)

AddTo(acc, item, q) == [acc EXCEPT ![item] = RAdd(@, q)]

RECURSIVE process_ingredient(_, _, _)
RECURSIVE ProcessIngredients(_, _, _, _)

ProcessIngredients(ings, k, multiplier, acc) ==
    IF k > Len(ings) THEN acc
    ELSE LET ing == ings[k]
             sub == ing.sub_recipe
             acc1 == IF sub.ingredients # <<>> /\ sub.kind = "craft"
                     THEN process_ingredient(sub,
                              NewMultiplier(multiplier, ing.count, sub.output_count), acc)
                     ELSE AddTo(acc, ing.item, RMulInt(multiplier, ing.count))
         IN  ProcessIngredients(ings, k + 1, multiplier, acc1)

process_ingredient(tree, multiplier, acc) ==
    IF tree.kind = "circular" THEN AddTo(acc, tree.item, multiplier)
    ELSE IF tree.kind = "base" \/ tree.ingredients = <<>> THEN AddTo(acc, tree.item, multiplier)
    ELSE ProcessIngredients(tree.ingredients, 1, multiplier, acc)

flatten_recipe(recipe_tree) == process_ingredient(recipe_tree, ROne, EmptyPlan)

\* line 171 divides by the output_count of a crafted sub-recipe; the walk of
\* process_ingredient reaches every crafted sub-recipe of the tree
RECURSIVE DividesByZero(_)
DividesByZero(tree) ==
    /\ tree.kind = "craft"
    /\ \E k \in 1..Len(tree.ingredients) :
          LET sub == tree.ingredients[k].sub_recipe
          IN  /\ sub.ingredients # <<>> /\ sub.kind = "craft"
              /\ (sub.output_count = 0 \/ DividesByZero(sub))

\* print_flattened_recipe_with_prices: total_cost = sum of buy_price * count
total_cost_of(flattened) ==
    RSum([i \in Items |-> RMulInt(flattened[i], prices[i])], Items)

query_recipe_with_prices(item_name, depth) ==
    IF recipes[item_name] = <<>> \/ valid_recipes(item_name) = <<>>
    THEN [found |-> FALSE, tree |-> BaseNode(item_name), flattened |-> EmptyPlan,
          total_cost |-> RZero, error |-> ""]
    ELSE LET recipe_tree == get_recipe_tree(item_name, {}, depth)
             flattened == flatten_recipe(recipe_tree)
         IN  IF recipe_tree.kind = "ValueError"
             THEN [found |-> TRUE, tree |-> recipe_tree, flattened |-> EmptyPlan,
                   total_cost |-> RZero, error |-> recipe_tree.kind]
             ELSE IF DividesByZero(recipe_tree)
             THEN [found |-> TRUE, tree |-> recipe_tree, flattened |-> EmptyPlan,
                   total_cost |-> RZero, error |-> "ZeroDivisionError"]
             ELSE [found |-> TRUE, tree |-> recipe_tree, flattened |-> flattened,
                   total_cost |-> total_cost_of(flattened), error |-> ""]

(* --------- backend/testing/test.py (and exportEngine.py): plans -------- *)

\* the ingredient ids of a recipe's filled slots
unique_ingredients(recipe) == {recipe.slots[k].item : k \in 1..Len(recipe.slots)}

is_base_item(item_name) ==
    \/ recipes[item_name] = <<>>
    \/ \E r \in 1..Len(recipes[item_name]) :
          LET unique == unique_ingredients(recipes[item_name][r])
          IN  /\ Cardinality(unique) = 1
              /\ LET ingredient == CHOOSE x \in unique : TRUE
                 IN  \E q \in 1..Len(recipes[ingredient]) :
                        item_name \in unique_ingredients(recipes[ingredient][q])

\* index of the first recipe with count 1, 0 when there is none
RECURSIVE FirstCountOne(_, _)
FirstCountOne(rs, k) ==
    IF k > Len(rs) THEN 0
    ELSE IF rs[k].count = 1 THEN k
    ELSE FirstCountOne(rs, k + 1)

\* next((r for r in recipes[item_name] if r.get('count', 1) == 1), recipes[item_name][0])
ChosenFullRecipe(item_name) ==
    LET k == FirstCountOne(recipes[item_name], 1)
    IN  IF k = 0 THEN recipes[item_name][1] ELSE recipes[item_name][k]

PlanRaised == [raised |-> TRUE, plan |-> EmptyPlan, error |-> "RecursionError"]

PlanReturn(plan) == [raised |-> FALSE, plan |-> plan, error |-> ""]

\* the call ended in the named exception
PlanError(error) == [raised |-> TRUE, plan |-> EmptyPlan, error |-> error]

RECURSIVE get_full_recipe(_, _)
RECURSIVE FullSlots(_, _, _, _)

FullSlots(slots, k, acc, depth) ==
    IF k > Len(slots) THEN PlanReturn(acc)
    ELSE LET sub == get_full_recipe(slots[k].item, depth)
         IN  IF sub.raised THEN PlanRaised
             ELSE FullSlots(slots, k + 1, AddScaled(acc, sub.plan, int(slots[k].qty)), depth)

get_full_recipe(item_name, depth) ==
    IF depth = 0 THEN PlanRaised
    ELSE IF recipes[item_name] = <<>> \/ is_base_item(item_name)
    THEN PlanReturn(Single(item_name))
    ELSE FullSlots(ChosenFullRecipe(item_name).slots, 1, EmptyPlan, depth - 1)

\* get_item_price_and_fill_time: has_price
has_price(item) == prices[item] # 0 \/ lbin[item] # 0

\* get_item_price_and_fill_time: price (bazaar first, then auction)
item_price(item) == IF prices[item] # 0 THEN prices[item] ELSE lbin[item]

\* recipe = recipes[item_name][0]
ChosenOptimalRecipe(item_name) == recipes[item_name][1]

\* visited = visited.copy(); visited.add(item_name)
OptimalVisited(visited, item_name) == visited \cup {item_name}

\* the guard of line 214 before the comparison of line 215
CompareWithDirect(has_direct_price, has_all_prices) == has_direct_price /\ has_all_prices

\* mutant: the summed quantity is returned undivided
PerOutputWhole(count, output_count) == count

\* the returned quantity of line 219: count / output_count
PerOutput(count, output_count) == RDivInt(count, output_count)

\* price * sub_count * count summed over the priced keys of a sub-plan
ingredient_cost(sub_plan, count) ==
    RSum([i \in Items |-> IF has_price(i)
                          THEN RMulInt(RMulInt(sub_plan[i], item_price(i)), count)
                          ELSE RZero], Keys(sub_plan))

\* total_cost / output_count at line 211 is evaluated when every ingredient
\* has a price, count / output_count at line 219 for every key of the plan
DivisionRaises(output_count, loop) ==
    /\ output_count = 0
    /\ (loop.has_all_prices \/ Keys(loop.optimal_ingredients) # {})

RECURSIVE get_optimal_recipe(_, _, _)
RECURSIVE OptimalSlots(_, _, _, _, _)

\* the loop of lines 183-208: acc is (total_cost, has_all_prices, optimal_ingredients)
OptimalSlots(slots, k, acc, visited, depth) ==
    IF k > Len(slots) THEN acc
    ELSE LET count == int(slots[k].qty)
             sub == get_optimal_recipe(slots[k].item, visited, depth)
         IN  IF ~isdigit(slots[k].qty)
             THEN [acc EXCEPT !.raised = TRUE, !.error = "ValueError"]
             ELSE IF sub.raised THEN [acc EXCEPT !.raised = TRUE, !.error = sub.error]
             ELSE OptimalSlots(slots, k + 1,
                     [raised |-> FALSE, error |-> "",
                      total_cost |-> RAdd(acc.total_cost, ingredient_cost(sub.plan, count)),
                      has_all_prices |-> acc.has_all_prices
                                         /\ \A i \in Keys(sub.plan) : has_price(i),
                      optimal_ingredients |->
                          AddScaled(acc.optimal_ingredients, sub.plan, count)],
                     visited, depth)

get_optimal_recipe(item_name, visited, depth) ==
    IF depth = 0 THEN PlanRaised
    ELSE IF item_name \in visited THEN PlanReturn(Single(item_name))
    ELSE IF recipes[item_name] = <<>> THEN PlanReturn(Single(item_name))
    ELSE
    LET visited1 == OptimalVisited(visited, item_name)
        has_direct_price == has_price(item_name)
        direct_price == item_price(item_name)
        recipe == ChosenOptimalRecipe(item_name)
        output_count == recipe.count
        loop == OptimalSlots(recipe.slots, 1,
                    [raised |-> FALSE, error |-> "", total_cost |-> RZero,
                     has_all_prices |-> TRUE, optimal_ingredients |-> EmptyPlan],
                    visited1, depth - 1)
        crafting_cost_per_item == RDivInt(loop.total_cost, output_count)
    IN  IF loop.raised THEN PlanError(loop.error)
        ELSE IF DivisionRaises(output_count, loop)
        THEN PlanError("ZeroDivisionError")
        ELSE IF /\ CompareWithDirect(has_direct_price, loop.has_all_prices)
                /\ RGeq(crafting_cost_per_item, <<direct_price, 1>>)
        THEN PlanReturn(Single(item_name))
        ELSE PlanReturn([i \in Items |-> PerOutput(loop.optimal_ingredients[i], output_count)])

(* ---------- backend/testing/exportEngine.py: fill times ---------------- *)

\* 604800, the number of seconds in a week
SecondsPerWeek == 604800

\* bp['hourly_instasells'] * 168
HoursPerWeek == 168

\* float('inf')
RInf == <<1, 0>>

\* weekly_rate = None
NoRate == -1

calculate_sell_fill_time(required_count, weekly_rate) ==
    IF weekly_rate <= 0 THEN RInf
    ELSE Rat(required_count * SecondsPerWeek, weekly_rate)

\* the entry get_crafting_details appends for one filled slot; the items of
\* the model hold no '-', so bazaar_item is the item itself
IngredientEntry(slot) ==
    LET bp == market[slot.item]
        weekly_rate == IF prices[slot.item] # 0 /\ bp.method = "Buy Order"
                       THEN bp.hourly_instasells * HoursPerWeek ELSE NoRate
    IN  [item |-> slot.item,
         total_needed |-> int(slot.qty),
         cost_per_unit |-> IF prices[slot.item] # 0 THEN prices[slot.item]
                           ELSE lbin[slot.item],
         fill_time |-> IF weekly_rate # NoRate
                       THEN calculate_sell_fill_time(int(slot.qty), weekly_rate)
                       ELSE RZero,
         weekly_rate |-> weekly_rate]

NoDetails == [found |-> FALSE, ingredients |-> <<>>, sell_fill_time |-> RZero]

get_crafting_details(item_name) ==
    IF recipes[item_name] = <<>> THEN NoDetails
    ELSE
    LET recipe == recipes[item_name][1]
        output_count == recipe.count
        ingredients == [k \in 1..Len(recipe.slots) |-> IngredientEntry(recipe.slots[k])]
        total_cost == SumCost([k \in 1..Len(recipe.slots) |->
                                  [cost |-> ingredients[k].cost_per_unit,
                                   count |-> int(recipe.slots[k].qty)]], 1)
        bp == market[item_name]
        weekly_sell_rate == IF bp.method = "Buy Order"
                            THEN bp.hourly_instasells * HoursPerWeek
                            ELSE bp.hourly_instabuys * HoursPerWeek
        sell_price == IF prices[item_name] # 0 THEN prices[item_name] ELSE lbin[item_name]
        sell_fill_time == IF prices[item_name] # 0
                          THEN calculate_sell_fill_time(output_count, weekly_sell_rate)
                          ELSE RZero
    IN  IF \E k \in 1..Len(recipe.slots) :
              prices[recipe.slots[k].item] = 0 /\ lbin[recipe.slots[k].item] = 0
        THEN NoDetails
        ELSE IF prices[item_name] = 0 /\ lbin[item_name] = 0 THEN NoDetails
        \* crafting_savings = sell_price - total_cost / output_count <= 0
        ELSE IF sell_price * output_count <= total_cost THEN NoDetails
        ELSE [found |-> TRUE, ingredients |-> ingredients,
              sell_fill_time |-> sell_fill_time]

\* aggregated[key]["total_needed"] += ing['total_needed'], keys in insertion order
RECURSIVE Aggregate(_, _, _)
Aggregate(ingredients, k, aggregated) ==
    IF k > Len(ingredients) THEN aggregated
    ELSE LET ing == ingredients[k]
             at == RawIndex(aggregated, ing.item, 1)
         IN  Aggregate(ingredients, k + 1,
                IF at = 0
                THEN Append(aggregated, [name |-> ing.item, total_needed |-> ing.total_needed,
                                         weekly_rate |-> ing.weekly_rate])
                ELSE [aggregated EXCEPT ![at].total_needed = @ + ing.total_needed])

\* lines 369-373: the total fill time of an aggregated ingredient
total_fill_time(total_needed, weekly_rate) ==
    IF weekly_rate # NoRate /\ weekly_rate > 0
    THEN Rat(total_needed * SecondsPerWeek, weekly_rate)
    ELSE RZero

RECURSIVE MaxFillTime(_, _, _)
MaxFillTime(aggregated, k, best) ==
    IF k > Len(aggregated) THEN best
    ELSE LET t == total_fill_time(aggregated[k].total_needed, aggregated[k].weekly_rate)
         IN  MaxFillTime(aggregated, k + 1, IF RGeq(best, t) THEN best ELSE t)

query_recipe(item_name) ==
    LET details == get_crafting_details(item_name)
        aggregated == Aggregate(details.ingredients, 1, <<>>)
    IN  [found |-> details.found,
         ingredients |-> details.ingredients,
         sell_fill_time |-> details.sell_fill_time,
         aggregated |->
            [k \in 1..Len(aggregated) |->
                [name |-> aggregated[k].name,
                 total_needed |-> aggregated[k].total_needed,
                 weekly_rate |-> aggregated[k].weekly_rate,
                 total_fill_time |-> total_fill_time(aggregated[k].total_needed,
                                                     aggregated[k].weekly_rate)]],
         overall_aggregated_fill_time |-> MaxFillTime(aggregated, 1, RZero)]

(* ------------------------------ inputs -------------------------------- *)

NoRecipes == [i \in Items |-> <<>>]

CountOptions == 1..MaxOutput

\* recipe.py data (data.json): at most one recipe per item (the "recipe" key).
\* A may have any one- or two-slot recipe, B any one-slot recipe, and C closes
\* cycles through A: the graphs hold chains, self-loops, two- and three-cycles,
\* repeated ingredients and ingredients that are not the sole one of a recipe.
DataOptions(i) ==
    IF i = "A" THEN {<<>>} \cup {<<Recipe(c, s)>> : c \in CountOptions, s \in Slots1 \cup Slots2}
    ELSE IF i = "B" THEN {<<>>} \cup {<<Recipe(c, s)>> : c \in CountOptions, s \in Slots1}
    ELSE {<<>>, <<Recipe(1, <<Slot("A", 1)>>)>>}

DataGraphs ==
    {[A |-> a, B |-> b, C |-> c] :
        a \in DataOptions("A"), b \in DataOptions("B"), c \in DataOptions("C")}

\* price tables: every item priced, no item priced, and mixed tables with ties,
\* prices at the "no price" threshold and auction-only items
BazaarTables ==
    { [A |-> 4, B |-> 2, C |-> 2],
      [A |-> 2, B |-> 4, C |-> 2],
      [A |-> 4, B |-> 1, C |-> 0],
      [A |-> 0, B |-> 2, C |-> 4],
      [A |-> 1, B |-> 2, C |-> 2],
      [A |-> 30, B |-> 10, C |-> 5],
      [A |-> 4, B |-> 0, C |-> 2],
      [A |-> 1, B |-> 0, C |-> 2],
      [A |-> 1, B |-> 1, C |-> 2],
      [A |-> 0, B |-> 0, C |-> 0] }

AuctionTables ==
    { [A |-> 0, B |-> 0, C |-> 0],
      [A |-> 0, B |-> 3, C |-> 0] }

\* backend/testing recipes (load_recipes): a list of recipes per item.  A has
\* one recipe, or a one-slot recipe followed by a second recipe.
SecondRecipes == {Recipe(c, <<Slot(j, 1)>>) : c \in CountOptions, j \in {"B", "C"}}

RecipeOptions(i) ==
    IF i = "A"
    THEN DataOptions("A")
         \cup {<<Recipe(c, <<Slot(j, 1)>>), r2>> : c \in CountOptions, j \in Items, r2 \in SecondRecipes}
    ELSE DataOptions(i)

RecipeGraphs ==
    {[A |-> a, B |-> b, C |-> c] :
        a \in RecipeOptions("A"), b \in RecipeOptions("B"), c \in RecipeOptions("C")}

\* bazaar and auction tables of the backend/testing runs
TestTables ==
    { <<[A |-> 4, B |-> 2, C |-> 2], [A |-> 0, B |-> 0, C |-> 0]>>,
      <<[A |-> 2, B |-> 4, C |-> 2], [A |-> 0, B |-> 0, C |-> 0]>>,
      <<[A |-> 4, B |-> 0, C |-> 2], [A |-> 0, B |-> 0, C |-> 0]>>,
      <<[A |-> 0, B |-> 2, C |-> 0], [A |-> 3, B |-> 0, C |-> 0]>> }

NoCall == [fn |-> "none", item |-> "A"]

\* the max_depth arguments of explicit calls
DepthArgs == -1..MaxDepthArg

\* prices[item_id] of fetch_all_bazaar_prices: method and hourly_instasells;
\* a product without an entry has neither
NoMarket == [method |-> "", hourly_instasells |-> 0, hourly_instabuys |-> 0]

\* "Instabuy" is chosen when hourly_instabuys < hourly_instasells, so its
\* hourly_instasells is positive; a "Buy Order" product may have none
MarketOptions(price) ==
    IF price = 0 THEN {NoMarket}
    ELSE {[method |-> "Instabuy", hourly_instasells |-> r, hourly_instabuys |-> 0] :
             r \in 1..MaxRate}
         \cup {[method |-> "Buy Order", hourly_instasells |-> r, hourly_instabuys |-> r] :
                 r \in 0..MaxRate}

MarketTables(p) ==
    {[A |-> a, B |-> b, C |-> c] :
        a \in MarketOptions(p["A"]), b \in MarketOptions(p["B"]), c \in MarketOptions(p["C"])}

\* every product sold faster than it is bought
InstabuyMarket(p) ==
    [i \in Items |-> IF p[i] = 0 THEN NoMarket
                     ELSE [method |-> "Instabuy", hourly_instasells |-> 1,
                           hourly_instabuys |-> 0]]

\* recipes of A over B and C, with or without a recipe of B
FillGraphs ==
    {[A |-> <<Recipe(1, <<Slot(i, q), Slot(j, 1)>>)>>, B |-> b, C |-> <<>>] :
        i \in {"B", "C"}, j \in {"B", "C"}, q \in 1..MaxQty,
        b \in {<<>>, <<Recipe(1, <<Slot("C", 2)>>)>>}}

FillPrices == {[A |-> 30, B |-> 10, C |-> 2], [A |-> 4, B |-> 0, C |-> 2]}

InitRecipePy ==
    /\ program = "recipe.py"
    /\ OthersIdle
    /\ data \in DataGraphs
    /\ recipes = NoRecipes
    /\ prices \in BazaarTables
    /\ lbin \in AuctionTables
    /\ market = InstabuyMarket(prices)
    /\ earlier = [i \in Items |-> Untracked]
    /\ threads = NoThreads
    /\ heap = NoHeap
    /\ call = NoCall
    /\ result = <<>>

InitTesting ==
    /\ program \in {"engine.py", "test.py"}
    /\ OthersIdle
    /\ data = NoRecipes
    /\ recipes \in RecipeGraphs
    /\ \E t \in TestTables : prices = t[1] /\ lbin = t[2]
    /\ market = [i \in Items |-> NoMarket]
    /\ earlier = [i \in Items |-> Untracked]
    /\ threads = NoThreads
    /\ heap = NoHeap
    /\ call = NoCall
    /\ result = <<>>

\* recipe.py with the markets of the bazaar varied
InitFillTime ==
    /\ program = "recipe.py"
    /\ OthersIdle
    /\ data \in FillGraphs
    /\ recipes = NoRecipes
    /\ prices \in FillPrices
    /\ lbin = [i \in Items |-> 0]
    /\ market \in MarketTables(prices)
    /\ earlier = [i \in Items |-> Untracked]
    /\ threads = NoThreads
    /\ heap = NoHeap
    /\ call = NoCall
    /\ result = <<>>

\* exportEngine.py: "Instabuy" when hourly_instabuys > hourly_instasells or
\* buy_price > sell_price * hourly_instasells / (hourly_instabuys + 1e-6), which
\* holds whenever hourly_instasells is 0; "Buy Order" otherwise, so a
\* "Buy Order" product has a positive hourly_instasells
ExportMarketOptions(price) ==
    IF price = 0 THEN {NoMarket}
    ELSE {[method |-> "Instabuy", hourly_instasells |-> 0, hourly_instabuys |-> 0],
          [method |-> "Instabuy", hourly_instasells |-> 1, hourly_instabuys |-> MaxRate]}
         \cup {[method |-> "Buy Order", hourly_instasells |-> r, hourly_instabuys |-> 0] :
                 r \in 1..MaxRate}

ExportRecipes ==
    {[A |-> <<Recipe(c, <<Slot(i, q), Slot(j, 1)>>)>>, B |-> <<>>, C |-> <<>>] :
        c \in CountOptions, i \in {"B", "C"}, j \in {"B", "C"}, q \in 1..MaxQty}

InitExport ==
    /\ program = "exportEngine.py"
    /\ OthersIdle
    /\ data = NoRecipes
    /\ recipes \in ExportRecipes
    /\ prices \in FillPrices
    /\ lbin = [i \in Items |-> 0]
    /\ market \in {[A |-> a, B |-> b, C |-> c] :
                      a \in ExportMarketOptions(prices["A"]),
                      b \in ExportMarketOptions(prices["B"]),
                      c \in ExportMarketOptions(prices["C"])}
    /\ earlier = [i \in Items |-> Untracked]
    /\ threads = NoThreads
    /\ heap = NoHeap
    /\ call = NoCall
    /\ result = <<>>

\* sessions of several requests whose first results are kept for comparison
RepeatGraphs ==
    { [A |-> <<Recipe(1, <<Slot("B", 1), Slot("C", 1)>>)>>,
       B |-> <<Recipe(1, <<Slot("C", 2)>>)>>, C |-> <<>>],
      [A |-> <<Recipe(1, <<Slot("B", 2)>>)>>,
       B |-> <<Recipe(1, <<Slot("A", 2)>>)>>, C |-> <<>>],
      [A |-> <<Recipe(1, <<Slot("B", 1)>>)>>,
       B |-> <<Recipe(1, <<Slot("C", 1)>>)>>,
       C |-> <<Recipe(1, <<Slot("A", 1)>>)>>] }

InitRepeat ==
    /\ OthersIdle
    /\ \/ /\ program = "recipe.py"
          /\ data \in RepeatGraphs
          /\ recipes = NoRecipes
          /\ prices \in FillPrices
          /\ lbin \in AuctionTables
          /\ market = InstabuyMarket(prices)
       \/ /\ program = "test.py"
          /\ data = NoRecipes
          /\ recipes \in RepeatGraphs
          /\ \E t \in TestTables : prices = t[1] /\ lbin = t[2]
          /\ market = [i \in Items |-> NoMarket]
    /\ earlier = [i \in Items |-> NotYet]
    /\ threads = NoThreads
    /\ heap = NoHeap
    /\ call = NoCall
    /\ result = <<>>

\* two callers, each resolving its own item over the same tables
InitConcurrent ==
    /\ program = "recipe.py"
    /\ OthersIdle
    /\ data \in RepeatGraphs
    /\ recipes = NoRecipes
    /\ prices \in FillPrices
    /\ lbin \in AuctionTables
    /\ market = InstabuyMarket(prices)
    /\ earlier = [i \in Items |-> Untracked]
    /\ call = NoCall
    /\ result = <<>>
    /\ \E i, j \in Items :
          /\ i # j
          /\ threads = [t \in Threads |-> TopLevelCall(t, IF t = 1 THEN i ELSE j)]
    /\ heap = NoHeap

\* a slot whose quantity part is the given text
StoredSlot(i, text) == [item |-> i, qty |-> text]

\* quantity parts as the recipe files may hold them
StoredTexts == {QuantityText(q) : q \in 1..MaxQty} \cup MalformedTexts

\* declared output quantities ("count") as the recipe files may hold them
StoredCounts == 0..MaxOutput

StoredSlots ==
    {<<StoredSlot(i, t)>> : i \in {"B", "C"}, t \in StoredTexts}
    \cup {<<StoredSlot("B", t), StoredSlot("C", u)>> : t \in StoredTexts, u \in StoredTexts}

\* recipes of A over B and C and of B over C, with every stored text and count
StoredGraphs ==
    {[A |-> <<Recipe(c, s)>>, B |-> b, C |-> <<>>] :
        c \in StoredCounts, s \in StoredSlots,
        b \in {<<>>} \cup {<<Recipe(d, <<StoredSlot("C", t)>>)>> :
                              d \in StoredCounts, t \in StoredTexts}}

\* the programs over recipe files whose quantities and counts are not checked
\* by anything before the resolvers read them
InitStored ==
    /\ OthersIdle
    /\ \/ /\ program = "recipe.py"
          /\ data \in StoredGraphs
          /\ recipes = NoRecipes
          /\ prices \in FillPrices
          /\ lbin \in AuctionTables
          /\ market = InstabuyMarket(prices)
       \/ /\ program \in {"engine.py", "test.py"}
          /\ data = NoRecipes
          /\ recipes \in StoredGraphs
          /\ \E t \in TestTables : prices = t[1] /\ lbin = t[2]
          /\ market = [i \in Items |-> NoMarket]
    /\ earlier = [i \in Items |-> Untracked]
    /\ threads = NoThreads
    /\ heap = NoHeap
    /\ call = NoCall
    /\ result = <<>>

Init ==
    \/ InitRecipePy \/ InitTesting \/ InitFillTime \/ InitExport \/ InitRepeat
    \/ InitConcurrent

\* recipe.py main(), option 1: build_recipe_tree, collect_raw_items and
\* find_longest_to_fill for the entered item
CallBuildRecipeTree ==
    \E item \in Items :
        /\ program = "recipe.py"
        /\ threads = NoThreads
        /\ call = NoCall
        /\ call' = [fn |-> "build_recipe_tree", item |-> item]
        /\ result' = ViewRecipeTree(item)
        /\ UNCHANGED <<program, data, recipes, prices, lbin, market, earlier, threads, heap>>
        /\ UNCHANGED others

\* engine.py: get_recipe_tree(item_name, recipes) with the default max_depth
CallGetRecipeTree ==
    \E item \in Items :
        /\ program = "engine.py"
        /\ call = NoCall
        /\ call' = [fn |-> "get_recipe_tree", item |-> item]
        /\ result' = get_recipe_tree(item, {}, DefaultMaxDepth)
        /\ UNCHANGED <<program, data, recipes, prices, lbin, market, earlier, threads, heap>>
        /\ UNCHANGED others

\* engine.py: get_recipe_tree(item_name, recipes, max_depth=d) for a depth the
\* caller chooses, zero and negative depths included
CallGetRecipeTreeDepth ==
    \E item \in Items, d \in DepthArgs :
        /\ program = "engine.py"
        /\ call = NoCall
        /\ call' = [fn |-> "get_recipe_tree(max_depth)", item |-> item, max_depth |-> d]
        /\ result' = get_recipe_tree(item, {}, d)
        /\ UNCHANGED <<program, data, recipes, prices, lbin, market, earlier, threads, heap>>
        /\ UNCHANGED others

\* engine.py __main__: query_recipe_with_prices(item, recipes, bazaar_prices, depth=3)
CallQueryRecipeWithPrices ==
    \E item \in Items :
        /\ program = "engine.py"
        /\ call = NoCall
        /\ call' = [fn |-> "query_recipe_with_prices", item |-> item]
        /\ result' = query_recipe_with_prices(item, QueryDepth)
        /\ UNCHANGED <<program, data, recipes, prices, lbin, market, earlier, threads, heap>>
        /\ UNCHANGED others

\* test.py: get_full_recipe(item_name, recipes)
CallGetFullRecipe ==
    \E item \in Items :
        /\ program = "test.py"
        /\ call = NoCall
        /\ call' = [fn |-> "get_full_recipe", item |-> item]
        /\ result' = get_full_recipe(item, RecursionLimit)
        /\ UNCHANGED <<program, data, recipes, prices, lbin, market, earlier, threads, heap>>
        /\ UNCHANGED others

\* test.py query_recipe: get_optimal_recipe(item_name, recipes, bazaar_prices, auction_prices)
CallGetOptimalRecipe ==
    \E item \in Items :
        /\ program = "test.py"
        /\ call = NoCall
        /\ call' = [fn |-> "get_optimal_recipe", item |-> item]
        /\ result' = get_optimal_recipe(item, TopLevelVisited(ResolvedBefore), RecursionLimit)
        /\ UNCHANGED <<program, data, recipes, prices, lbin, market, earlier, threads, heap>>
        /\ UNCHANGED others

\* exportEngine.py main: query_recipe(item_name, recipes, bazaar_prices, auction_prices)
CallQueryRecipe ==
    \E item \in Items :
        /\ program = "exportEngine.py"
        /\ call = NoCall
        /\ call' = [fn |-> "query_recipe", item |-> item]
        /\ result' = query_recipe(item)
        /\ UNCHANGED <<program, data, recipes, prices, lbin, market, earlier, threads, heap>>
        /\ UNCHANGED others

\* the caller prints the result and asks for the next item
\* lines 54-88 of one call: the cycle test, the leaves for items without a
\* usable recipe, and visited.add
Enter(t) ==
    LET th == threads[t]
        item_id == TopFrame(th).item
        o == th.visited
        seen == [th EXCEPT !.crossed = @ \/ HeldByOther(t, item_id)]
    IN  /\ th.state = "running"
        /\ TopFrame(th).pc = "enter"
        /\ IF Len(th.stack) > RecursionLimit
           THEN /\ threads' = [threads EXCEPT ![t] = [seen EXCEPT !.state = "raised"]]
                /\ heap' = heap
           ELSE IF InAncestors(item_id, heap[o])
           THEN /\ threads' = [threads EXCEPT ![t] = ReturnTo(seen, CycleLeaf(item_id))]
                /\ heap' = heap
           ELSE IF data[item_id] = <<>>
           THEN /\ threads' = [threads EXCEPT ![t] = ReturnTo(seen, BaseLeaf(item_id))]
                /\ heap' = heap
           ELSE IF SkipMultipleOutput(data[item_id][1].count)
           THEN /\ threads' = [threads EXCEPT ![t] =
                      ReturnTo(seen, Leaf(item_id, "base item (multiple output)",
                                          bazaar_price_of(item_id)))]
                /\ heap' = heap
           ELSE /\ heap' = [heap EXCEPT ![o] = VisitedAdd(@, item_id)]
                /\ threads' = [threads EXCEPT ![t] =
                      [seen EXCEPT !.stack[Len(th.stack)].pc = "decide"]]
        /\ UNCHANGED <<program, data, recipes, prices, lbin, market, call, result, earlier>>
        /\ UNCHANGED others

\* lines 90-122: the merged ingredients and the early return for an item whose
\* components have no price
Decide(t) ==
    LET th == threads[t]
        item_id == TopFrame(th).item
        o == th.visited
        merged == merged_ingredients(data[item_id][1])
    IN  /\ th.state = "running"
        /\ TopFrame(th).pc = "decide"
        /\ IF AllComponentsNoPrice(merged) /\ ItemHasPrice(item_id)
           THEN /\ heap' = [heap EXCEPT ![o] = VisitedRemove(@, item_id)]
                /\ threads' = [threads EXCEPT ![t] =
                      ReturnTo(th, ComponentsNoPriceLeaf(item_id))]
           ELSE /\ heap' = heap
                /\ threads' = [threads EXCEPT ![t].stack[Len(th.stack)].pc = "loop"]
        /\ UNCHANGED <<program, data, recipes, prices, lbin, market, call, result, earlier>>
        /\ UNCHANGED others

\* lines 132 and 146: the recursive call for the next merged ingredient
CallChild(t) ==
    LET th == threads[t]
        item_id == TopFrame(th).item
        merged == merged_ingredients(data[item_id][1])
        k == Len(TopFrame(th).kids) + 1
    IN  /\ th.state = "running"
        /\ TopFrame(th).pc = "loop"
        /\ k <= Len(merged)
        /\ threads' = [threads EXCEPT ![t].stack = Append(@, Frame(merged[k].name))]
        /\ UNCHANGED <<program, data, recipes, prices, lbin, market, call, result, earlier, heap>>
        /\ UNCHANGED others

\* lines 135-142 and 174-207: visited.remove and the return of the node
Finish(t) ==
    LET th == threads[t]
        item_id == TopFrame(th).item
        o == th.visited
        merged == merged_ingredients(data[item_id][1])
    IN  /\ th.state = "running"
        /\ TopFrame(th).pc = "loop"
        /\ Len(TopFrame(th).kids) = Len(merged)
        /\ heap' = [heap EXCEPT ![o] = VisitedRemove(@, item_id)]
        /\ threads' = [threads EXCEPT ![t] =
              ReturnTo(th, FinishedNode(item_id, merged, TopFrame(th).kids))]
        /\ UNCHANGED <<program, data, recipes, prices, lbin, market, call, result, earlier>>
        /\ UNCHANGED others

ConsumeResult ==
    /\ call # NoCall
    /\ call' = NoCall
    /\ result' = <<>>
    /\ earlier' = IF call.fn \in ResolveCalls /\ earlier[call.item] = NotYet
                   THEN [earlier EXCEPT ![call.item] = result]
                   ELSE earlier
    /\ UNCHANGED <<program, data, recipes, prices, lbin, market, threads, heap>>
    /\ UNCHANGED others

Next ==
    \/ ConsumeResult
    \/ CallBuildRecipeTree
    \/ CallGetRecipeTree
    \/ CallGetRecipeTreeDepth
    \/ CallQueryRecipeWithPrices
    \/ CallGetFullRecipe
    \/ CallGetOptimalRecipe
    \/ CallQueryRecipe
    \/ \E t \in Threads : Enter(t)
    \/ \E t \in Threads : Decide(t)
    \/ \E t \in Threads : CallChild(t)
    \/ \E t \in Threads : Finish(t)

Spec == Init /\ [][Next]_vars

\* the resolvers called on recipe files as stored
NextStored ==
    \/ ConsumeResult
    \/ CallBuildRecipeTree
    \/ CallGetRecipeTree
    \/ CallQueryRecipeWithPrices
    \/ CallGetOptimalRecipe

SpecStored == InitStored /\ [][NextStored]_vars

(* ------------------------- graph vocabulary --------------------------- *)

\* the ingredient ids named by the recipes of an item in graph g
IngredientsOf(g, i) ==
    UNION {unique_ingredients(g[i][r]) : r \in 1..Len(g[i])}

\* the items reachable from the set S in at most n ingredient steps
RECURSIVE ReachFrom(_, _, _)
ReachFrom(g, S, n) ==
    IF n = 0 THEN S
    ELSE ReachFrom(g, S \cup UNION {IngredientsOf(g, i) : i \in S}, n - 1)

\* the items reachable from i in one step or more
Below(g, i) == ReachFrom(g, IngredientsOf(g, i), Cardinality(Items))

OnCycle(g, i) == i \in Below(g, i)

Acyclic(g) == \A i \in Items : ~OnCycle(g, i)

\* the distinct items of the graph a top-level call for item sees
GraphItems(g, item) == {item} \cup Below(g, item)

\* the graph of the running program
TheGraph == IF program = "recipe.py" THEN data ELSE recipes

Max(a, b) == IF a >= b THEN a ELSE b

Min(a, b) == IF a <= b THEN a ELSE b

(* ---------------------- shape of the returned trees ------------------- *)

\* edges from the root of a build_recipe_tree tree to its deepest node
RECURSIVE TreeDepth(_)
RECURSIVE ChildrenDepth(_, _)
ChildrenDepth(children, k) ==
    IF k > Len(children) THEN 0
    ELSE Max(1 + TreeDepth(children[k]), ChildrenDepth(children, k + 1))

TreeDepth(t) == ChildrenDepth(t.children, 1)

\* edges from the root of a get_recipe_tree tree to its deepest node
RECURSIVE NodeDepth(_)
RECURSIVE IngredientsDepth(_, _)
IngredientsDepth(ings, k) ==
    IF k > Len(ings) THEN 0
    ELSE Max(1 + NodeDepth(ings[k].sub_recipe), IngredientsDepth(ings, k + 1))

NodeDepth(t) == IngredientsDepth(t.ingredients, 1)

IsCycleLeaf(t) == t.note = "base item (cycle detected)" /\ t.children = <<>>

IsCircularNode(t) == t.kind = "circular" /\ t.ingredients = <<>>

\* every node of a build_recipe_tree tree whose name is among its ancestors
\* is a childless cycle-terminated node costing the item's bazaar price
RECURSIVE TreePathsOK(_, _)
TreePathsOK(t, anc) ==
    /\ t.name \in anc => IsCycleLeaf(t)
    /\ IsCycleLeaf(t) => t.cost = prices[t.name]
    /\ \A k \in 1..Len(t.children) : TreePathsOK(t.children[k], anc \cup {t.name})

\* every node of a get_recipe_tree tree whose item is among its ancestors is
\* a childless circular node
RECURSIVE NodePathsOK(_, _)
NodePathsOK(t, anc) ==
    /\ t.item \in anc => IsCircularNode(t)
    /\ \A k \in 1..Len(t.ingredients) :
          NodePathsOK(t.ingredients[k].sub_recipe, anc \cup {t.item})

\* the same, except that a repeated item lying max_depth edges below the root
\* may be a childless base node
RECURSIVE NodePathsOKUpTo(_, _, _)
NodePathsOKUpTo(t, anc, left) ==
    /\ t.item \in anc =>
          \/ IsCircularNode(t)
          \/ left = 0 /\ t.kind = "base" /\ t.ingredients = <<>>
    /\ \A k \in 1..Len(t.ingredients) :
          NodePathsOKUpTo(t.ingredients[k].sub_recipe, anc \cup {t.item}, left - 1)

RECURSIVE HasCycleLeaf(_)
HasCycleLeaf(t) ==
    IsCycleLeaf(t) \/ \E k \in 1..Len(t.children) : HasCycleLeaf(t.children[k])

RECURSIVE HasCircularNode(_)
HasCircularNode(t) ==
    IsCircularNode(t) \/ \E k \in 1..Len(t.ingredients) : HasCircularNode(t.ingredients[k].sub_recipe)

\* the tree a finished engine.py call returned
EngineTree == IF call.fn = "get_recipe_tree" THEN result ELSE result.tree

\* max_depth of the finished engine.py call
EngineMaxDepth == IF call.fn = "get_recipe_tree" THEN DefaultMaxDepth ELSE QueryDepth

EngineCall == call.fn = "get_recipe_tree" \/ (call.fn = "query_recipe_with_prices" /\ result.found)

(* ------------------------------ claims -------------------------------- *)

\* C1: on every recipe graph, cyclic ones included, and every price table a
\* top-level call of build_recipe_tree, get_recipe_tree and get_optimal_recipe
\* terminates (no RecursionError) and returns a result for the item asked for.
C1_Terminates ==
    /\ call.fn = "build_recipe_tree" => ~result.raised /\ result.tree.name \in Items
    /\ call.fn = "get_recipe_tree" => result.item = call.item
    /\ call.fn = "get_optimal_recipe" => ~result.raised /\ Keys(result.plan) # {}

\* a cyclic graph was resolved by each of the three functions
C1_Witness ==
    /\ OnCycle(TheGraph, call.item)
    /\ \/ call.fn = "build_recipe_tree" /\ HasCycleLeaf(result.tree)
       \/ call.fn = "get_recipe_tree" /\ HasCircularNode(result)
       \/ call.fn = "get_optimal_recipe" /\ result.plan[call.item] # RZero
                /\ result.plan # Single(call.item)

C7_DepthBounded ==
    /\ call.fn = "build_recipe_tree" =>
          /\ ~result.raised
          /\ TreeDepth(result.tree) <= Cardinality(GraphItems(data, call.item))
    /\ EngineCall => NodeDepth(EngineTree) <= Cardinality(GraphItems(recipes, call.item))

\* P from Q and Q from P: the tree of P is P - Q - P(cycle), two edges deep
C7_Witness ==
    /\ IngredientsOf(TheGraph, "A") = {"B"} /\ IngredientsOf(TheGraph, "B") = {"A"}
    /\ call.item = "A"
    /\ \/ call.fn = "build_recipe_tree" /\ HasCycleLeaf(result.tree) /\ TreeDepth(result.tree) = 2
       \/ call.fn = "get_recipe_tree" /\ HasCircularNode(result) /\ NodeDepth(result) = 2

(* --------------------- costs of build_recipe_tree --------------------- *)

HasRecipe(i) == data[i] # <<>>

\* the merged ingredients of the recipe of an item of recipe.py's data
IngredientList(i) == merged_ingredients(data[i][1])

\* the unit cost of an ingredient: the cost of the tree resolved for it
UnitCost(i) == build_recipe_tree(i, {}, RecursionLimit).tree.cost

\* sum over the ingredients of child unit cost x slot quantity
RECURSIVE CraftSum(_, _)
CraftSum(merged, k) ==
    IF k > Len(merged) THEN 0
    ELSE merged[k].count * UnitCost(merged[k].name) + CraftSum(merged, k + 1)

\* the crafted cost the call for item compares with the bazaar price: its
\* ingredients resolved below the item
CraftedCost(item) ==
    LET merged == IngredientList(item)
        kids == BuildChildren(merged, 1, {item}, RecursionLimit - 1)
    IN  SumCost([k \in 1..Len(kids.trees) |->
                    [kids.trees[k] EXCEPT !.count = merged[k].count]], 1)

EveryItemPriced == \A i \in Items : prices[i] # 0

EveryItemPricedAboveOne == \A i \in Items : prices[i] > 1

SomeIngredientPriced(item) ==
    \E k \in 1..Len(IngredientList(item)) :
        prices[IngredientList(item)[k].name] > 1 \/ lbin[IngredientList(item)[k].name] > 1

\* C3 (as claimed): on an acyclic graph in which every item has a price the
\* root cost is the minimum of the direct buy price and the sum over the
\* ingredients of child unit cost x slot quantity, divided by the recipe's
\* output quantity.
C3_Original ==
    (/\ call.fn = "build_recipe_tree" /\ ~result.raised
     /\ Acyclic(data) /\ EveryItemPriced /\ HasRecipe(call.item))
    => result.tree.cost * data[call.item][1].count
          = Min(prices[call.item] * data[call.item][1].count,
                CraftSum(IngredientList(call.item), 1))

\* C3 (amended): on an acyclic graph in which every item has a bazaar price
\* above 1, an item whose recipe has output quantity 1 costs the minimum of its
\* direct buy price and the sum of child unit cost x slot quantity; an item
\* whose recipe has a larger output quantity is not expanded and costs its
\* direct buy price.
C3_RootCostIsMinimum ==
    (/\ call.fn = "build_recipe_tree" /\ ~result.raised
     /\ Acyclic(data) /\ EveryItemPricedAboveOne /\ HasRecipe(call.item))
    => result.tree.cost
          = IF data[call.item][1].count > 1 THEN prices[call.item]
            ELSE Min(prices[call.item], CraftSum(IngredientList(call.item), 1))

\* A from 2 x B + 1 x C with B at 10, C at 5 and A at 30: crafted for 25
C3_Witness ==
    /\ call = [fn |-> "build_recipe_tree", item |-> "A"]
    /\ data["A"] = <<Recipe(1, <<Slot("B", 2), Slot("C", 1)>>)>>
    /\ Acyclic(data)
    /\ prices = [A |-> 30, B |-> 10, C |-> 5]
    /\ result.tree.note = "crafting" /\ result.tree.cost = 25
    /\ Len(result.tree.children) = 2

\* the case the comparison of crafting and buying is made in: a recipe of
\* output quantity 1, a bazaar price above 1 and a priced ingredient
ComparesCraftWithBuy ==
    /\ call.fn = "build_recipe_tree" /\ ~result.raised
    /\ HasRecipe(call.item) /\ data[call.item][1].count = 1
    /\ prices[call.item] > 1
    /\ SomeIngredientPriced(call.item)

IsBuyDirect(t) == t.children = <<>> /\ t.note = "purchased directly"

\* C4 (as claimed): the result collapses to a childless buy-direct node only
\* when buying is cheaper than crafting, and keeps the craft node otherwise,
\* equal costs included.
C4_Original ==
    ComparesCraftWithBuy =>
        (result.tree.children = <<>> <=> prices[call.item] < CraftedCost(call.item))

\* C4 (amended): the result collapses to a childless buy-direct node whenever
\* crafting is not cheaper than buying, equal costs included, and keeps the
\* craft node with its children and the crafted cost only when crafting is
\* strictly cheaper.
C4_CollapsesUnlessCheaper ==
    ComparesCraftWithBuy =>
        IF CraftedCost(call.item) >= prices[call.item]
        THEN IsBuyDirect(result.tree) /\ result.tree.cost = prices[call.item]
        ELSE /\ result.tree.children # <<>>
             /\ result.tree.note = "crafting"
             /\ result.tree.name = call.item
             /\ result.tree.cost = CraftedCost(call.item)

\* crafting costs exactly the direct price and the item is bought directly
C4_Witness ==
    /\ ComparesCraftWithBuy
    /\ CraftedCost(call.item) = prices[call.item]
    /\ IsBuyDirect(result.tree)

(* ------------------- plans of backend/testing ------------------------- *)

\* the loop of get_optimal_recipe over the recipe of a top-level item
ExpansionOf(item) ==
    OptimalSlots(ChosenOptimalRecipe(item).slots, 1,
        [raised |-> FALSE, error |-> "", total_cost |-> RZero, has_all_prices |-> TRUE,
         optimal_ingredients |-> EmptyPlan],
        {item}, RecursionLimit - 1)

OptimalCall ==
    /\ call.fn = "get_optimal_recipe" /\ ~result.raised
    /\ recipes[call.item] # <<>>

\* C5: when the item has a direct price and some item of its ingredient
\* expansion has no price, get_optimal_recipe returns the plan {item: 1}.
C5_CollapsesWithoutCraftCost ==
    (/\ OptimalCall
     /\ has_price(call.item)
     /\ ~ExpansionOf(call.item).has_all_prices)
    => result.plan = Single(call.item)

\* C6: get_full_recipe terminates on every finite recipe graph.
C6_FullRecipeTerminates ==
    call.fn = "get_full_recipe" => ~result.raised

\* the craft plan is kept: the comparison with the direct price did not
\* collapse the result
KeepsCraftPlan(item) ==
    LET loop == ExpansionOf(item)
    IN  ~(/\ has_price(item) /\ loop.has_all_prices
          /\ RGeq(RDivInt(loop.total_cost, ChosenOptimalRecipe(item).count),
                  <<item_price(item), 1>>))

\* the plan resolved for an ingredient of a top-level item
SubPlan(item, ingredient) ==
    get_optimal_recipe(ingredient, {item}, RecursionLimit - 1).plan

\* sum over the slots of slot quantity x sub-plan quantity of raw item i
RECURSIVE SlotSum(_, _, _, _)
SlotSum(item, slots, k, i) ==
    IF k > Len(slots) THEN RZero
    ELSE RAdd(RMulInt(SubPlan(item, slots[k].item)[i], int(slots[k].qty)),
              SlotSum(item, slots, k + 1, i))

\* C8: when get_optimal_recipe keeps the craft plan of an item whose recipe
\* produces k units per craft, every returned raw quantity is the summed
\* (slot quantity x sub-plan quantity) divided by k.
C8_QuantitiesPerOutput ==
    (OptimalCall /\ KeepsCraftPlan(call.item)) =>
        \A i \in Items :
            result.plan[i]
              = RDivInt(SlotSum(call.item, ChosenOptimalRecipe(call.item).slots, 1, i),
                        ChosenOptimalRecipe(call.item).count)

\* a recipe producing 2 per craft from one B: half a B per unit, 1.5 B for 3
C8_Witness ==
    /\ OptimalCall /\ KeepsCraftPlan(call.item)
    /\ recipes[call.item] = <<Recipe(2, <<Slot("B", 1)>>)>>
    /\ call.item = "A"
    /\ recipes["B"] = <<>>
    /\ result.plan = [Single("B") EXCEPT !["B"] = <<1, 2>>]
    /\ RMulInt(result.plan["B"], 3) = <<3, 2>>

\* the raw quantities for one unit of the root of a tree: every crafted node,
\* the root included, divides by its output quantity
RECURSIVE PerUnit(_, _, _)
RECURSIVE PerUnitIngredients(_, _, _, _)

PerUnitIngredients(ings, k, multiplier, acc) ==
    IF k > Len(ings) THEN acc
    ELSE PerUnitIngredients(ings, k + 1, multiplier,
            PerUnit(ings[k].sub_recipe, RMulInt(multiplier, ings[k].count), acc))

PerUnit(tree, multiplier, acc) ==
    IF tree.kind # "craft" \/ tree.ingredients = <<>>
    THEN AddTo(acc, tree.item, multiplier)
    ELSE PerUnitIngredients(tree.ingredients, 1,
            RDivInt(multiplier, tree.output_count), acc)

\* C9: the quantities flatten_recipe returns are per single unit of the root:
\* products of slot quantities divided by the output quantity of every crafted
\* node on the path, the root's included, so that the total cost is a per-unit
\* cost.
C9_FlattenedPerUnit ==
    (call.fn = "query_recipe_with_prices" /\ result.found) =>
        /\ result.flattened = PerUnit(result.tree, ROne, EmptyPlan)
        /\ result.total_cost = total_cost_of(PerUnit(result.tree, ROne, EmptyPlan))

\* the recipes the selection policy allows out of a list: those of output
\* quantity 1 if there is one, otherwise the first
Acceptable(rs) ==
    IF \E k \in 1..Len(rs) : rs[k].count = 1
    THEN {rs[k] : k \in {j \in 1..Len(rs) : rs[j].count = 1}}
    ELSE {rs[1]}

\* the raw items a plan expanding recipe r of item can name
PlanItems(item, r) ==
    {item} \cup ReachFrom(recipes, unique_ingredients(r), Cardinality(Items))

\* C10: when an item has several recipes, get_full_recipe, get_optimal_recipe
\* and get_recipe_tree each expand a recipe of output quantity 1 if the item
\* has one, and otherwise the first available recipe.
C10_PrefersCountOne ==
    /\ (/\ call.fn \in {"get_full_recipe", "get_optimal_recipe"} /\ ~result.raised
        /\ Len(recipes[call.item]) >= 2)
       => \E r \in Acceptable(recipes[call.item]) :
              Keys(result.plan) \subseteq PlanItems(call.item, r)
    /\ (/\ call.fn = "get_recipe_tree" /\ result.kind = "craft"
        /\ Len(valid_recipes(call.item)) >= 2)
       => \E r \in Acceptable(valid_recipes(call.item)) :
              /\ result.output_count = r.count
              /\ {result.ingredients[k].item : k \in 1..Len(result.ingredients)}
                    = unique_ingredients(r)

(* ------------------ self-referential recipes (engine.py) --------------- *)

\* every recipe of the item names the item in one of its slots
AllSelfReferential(i) ==
    /\ recipes[i] # <<>>
    /\ \A k \in 1..Len(recipes[i]) : i \in unique_ingredients(recipes[i][k])

\* the ingredient list of a craft node, as (name, count) pairs
NodeIngredients(t) ==
    [k \in 1..Len(t.ingredients) |->
        [name |-> t.ingredients[k].item, count |-> t.ingredients[k].count]]

\* no craft node of the tree expands a recipe naming the node's own item
RECURSIVE NoSelfExpansion(_)
NoSelfExpansion(t) ==
    IF t.kind # "craft" THEN t.ingredients = <<>>
    ELSE /\ \E k \in 1..Len(recipes[t.item]) :
               /\ t.item \notin unique_ingredients(recipes[t.item][k])
               /\ t.output_count = recipes[t.item][k].count
               /\ NodeIngredients(t) = merged_ingredients(recipes[t.item][k])
         /\ \A k \in 1..Len(t.ingredients) :
               /\ t.ingredients[k].item # t.item
               /\ NoSelfExpansion(t.ingredients[k].sub_recipe)

\* C11: get_recipe_tree never expands a recipe that names the output item in
\* one of its slots; an item all of whose recipes are self-referential is
\* returned as a base item without ingredients, and query_recipe_with_prices
\* returns an empty result for it.
C11_SelfReferentialExcluded ==
    /\ EngineCall => NoSelfExpansion(EngineTree)
    /\ (call.fn = "get_recipe_tree" /\ AllSelfReferential(call.item))
          => result = BaseNode(call.item)
    /\ (call.fn = "query_recipe_with_prices" /\ AllSelfReferential(call.item))
          => ~result.found /\ result.flattened = EmptyPlan

\* the first recipe of A names A and is passed over for the second one
C11_Witness ==
    /\ call = [fn |-> "get_recipe_tree", item |-> "A"]
    /\ Len(recipes["A"]) = 2
    /\ "A" \in unique_ingredients(recipes["A"][1])
    /\ result.kind = "craft"
    /\ NodeIngredients(result) = merged_ingredients(recipes["A"][2])

(* ------------------- node kinds of build_recipe_tree ------------------- *)

BuyDirectNotes ==
    {"base item", "base item (from auction)", "base item (multiple output)",
     "base item (components have no price)", "purchased directly"}

NoPriceNotes == {"base item (no price)"}

CycleNotes == {"base item (cycle detected)"}

CraftNotes == {"crafting", "crafting (no bazaar price)"}

\* the leaf an item without a recipe is priced as: bazaar first, then auction,
\* no-price when it has neither
OracleLeaf(i) ==
    IF prices[i] # 0 THEN Leaf(i, "base item", prices[i])
    ELSE IF lbin[i] # 0 THEN Leaf(i, "base item (from auction)", lbin[i])
    ELSE Leaf(i, "base item (no price)", 0)

\* every childless node is a leaf of one of the three kinds, every other node
\* is a crafting node whose cost is the cost of its children
RECURSIVE NodeKindsOK(_)
NodeKindsOK(t) ==
    IF t.children = <<>>
    THEN /\ t.note \in BuyDirectNotes \cup NoPriceNotes \cup CycleNotes
         /\ t.note \in NoPriceNotes => t.cost = 0
         /\ t.note \in BuyDirectNotes \ {"base item (multiple output)"} => t.cost > 0
         /\ data[t.name] = <<>> => [t EXCEPT !.count = 1] = OracleLeaf(t.name)
    ELSE /\ t.note \in CraftNotes
         /\ t.cost = SumCost(t.children, 1)
         /\ \A k \in 1..Len(t.children) : NodeKindsOK(t.children[k])

\* C12: in every tree returned by build_recipe_tree each childless node is a
\* buy-direct leaf, a no-price leaf or a cycle-terminated leaf, an item with
\* no recipe is returned as such a leaf priced from the oracle (no-price when
\* it has neither a bazaar nor an auction price), and every node noted as
\* crafting has at least one child and a cost.
C12_NodeKinds ==
    (call.fn = "build_recipe_tree" /\ ~result.raised) =>
        /\ NodeKindsOK(result.tree)
        /\ data[call.item] = <<>> => result.tree = OracleLeaf(call.item)
        /\ result.tree.note \in CraftNotes => Len(result.tree.children) >= 1

\* a crafting node over an ingredient that has only an auction price
C12_Witness ==
    /\ call.fn = "build_recipe_tree" /\ ~result.raised
    /\ result.tree.note \in CraftNotes
    /\ \E k \in 1..Len(result.tree.children) :
          /\ result.tree.children[k].note = "base item (from auction)"
          /\ data[result.tree.children[k].name] = <<>>

(* --------------------- raw items of a recipe tree ---------------------- *)

\* the paths (child indices) from a node to the childless nodes below it
RECURSIVE LeafPaths(_)
LeafPaths(t) ==
    IF t.children = <<>> THEN {<<>>}
    ELSE UNION {{<<k>> \o p : p \in LeafPaths(t.children[k])} : k \in 1..Len(t.children)}

RECURSIVE NodeAt(_, _)
NodeAt(t, p) == IF p = <<>> THEN t ELSE NodeAt(t.children[p[1]], Tail(p))

\* the count of the node at the end of the path times the counts of its ancestors
RECURSIVE PathProduct(_, _)
PathProduct(t, p) ==
    IF p = <<>> THEN t.count ELSE t.count * PathProduct(t.children[p[1]], Tail(p))

RECURSIVE NatSum(_, _)
NatSum(f, S) ==
    IF S = {} THEN 0
    ELSE LET x == CHOOSE y \in S : TRUE IN f[x] + NatSum(f, S \ {x})

\* the leaves of item i that are not cycle-terminated, and those that are
PlainLeaves(t, i) ==
    {p \in LeafPaths(t) : NodeAt(t, p).name = i /\ NodeAt(t, p).note \notin CycleNotes}

CycleLeaves(t, i) ==
    {p \in LeafPaths(t) : NodeAt(t, p).name = i /\ NodeAt(t, p).note \in CycleNotes}

PlainLeafSum(t, i) == NatSum([p \in PlainLeaves(t, i) |-> PathProduct(t, p)], PlainLeaves(t, i))

\* the quantity raw_items holds for item i, 0 when i is not a key
RawQuantity(raw_items, i) ==
    LET k == RawIndex(raw_items, i, 1) IN IF k = 0 THEN 0 ELSE raw_items[k].quantity

RawKeys(raw_items) == {raw_items[k].name : k \in 1..Len(raw_items)}

ViewCall == call.fn = "build_recipe_tree" /\ ~result.raised

\* C13: collect_raw_items returns for each item the sum, over the leaves of
\* that item that are not cycle-terminated, of the leaf's count times the
\* counts of all its ancestors (cycle-terminated leaves are counted apart);
\* for a tree that is a single leaf it returns exactly {item: count}.
C13_RawItemsAreLeafSums ==
    ViewCall =>
        /\ \A i \in Items :
              RawQuantity(result.raw_items, i) - Cardinality(CycleLeaves(result.tree, i))
                 = PlainLeafSum(result.tree, i)
        /\ RawKeys(result.raw_items) = {NodeAt(result.tree, p).name : p \in LeafPaths(result.tree)}
        /\ result.tree.children = <<>> =>
              result.raw_items = <<[name |-> result.tree.name, quantity |-> result.tree.count]>>

\* a leaf two levels down whose quantity is the product of two slot quantities
C13_Witness ==
    /\ ViewCall
    /\ \E p \in LeafPaths(result.tree) :
          /\ Len(p) = 2
          /\ NodeAt(result.tree, p).note \notin CycleNotes
          /\ NodeAt(result.tree, p).count = 2
          /\ NodeAt(result.tree, <<p[1]>>).count = 2
          /\ RawQuantity(result.raw_items, NodeAt(result.tree, p).name) >= 4

(* ------------------- cycle-terminated nodes in totals ------------------ *)

\* the total of item i below a craft node: an ingredient that is not expanded
\* adds multiplier x slot quantity; with circular_is_one a circular node adds
\* exactly 1 instead
RECURSIVE FlatBelow(_, _, _, _, _)
FlatBelow(ings, k, multiplier, i, circular_is_one) ==
    IF k > Len(ings) THEN RZero
    ELSE LET sub == ings[k].sub_recipe
             here ==
                 IF sub.kind = "craft" /\ sub.ingredients # <<>>
                 THEN FlatBelow(sub.ingredients, 1,
                                RDivInt(RMulInt(multiplier, ings[k].count), sub.output_count),
                                i, circular_is_one)
                 ELSE IF ings[k].item # i THEN RZero
                 ELSE IF sub.kind = "circular" /\ circular_is_one THEN ROne
                 ELSE RMulInt(multiplier, ings[k].count)
         IN  RAdd(here, FlatBelow(ings, k + 1, multiplier, i, circular_is_one))

\* the raw quantity of item i is its plain leaves plus 1 per cycle leaf
RawCountsCycleOnce(i) ==
    RawQuantity(result.raw_items, i)
        = PlainLeafSum(result.tree, i) + Cardinality(CycleLeaves(result.tree, i))

\* C14 (as claimed): collect_raw_items and flatten_recipe both add exactly 1
\* unit to an item's total for each cycle-terminated node of that item,
\* whatever the node's slot quantity and the multiplier on its path.
C14_Original ==
    /\ ViewCall => \A i \in Items : RawCountsCycleOnce(i)
    /\ (call.fn = "query_recipe_with_prices" /\ result.found) =>
          \A i \in Items :
              result.flattened[i] = FlatBelow(result.tree.ingredients, 1, ROne, i, TRUE)

\* C14 (amended): collect_raw_items adds exactly 1 unit for each
\* cycle-terminated leaf, whatever its count and multiplier; flatten_recipe
\* adds multiplier x slot quantity for a circular node, as for a base item.
C14_CycleNodeQuantities ==
    /\ ViewCall => \A i \in Items : RawCountsCycleOnce(i)
    /\ (call.fn = "query_recipe_with_prices" /\ result.found) =>
          \A i \in Items :
              result.flattened[i] = FlatBelow(result.tree.ingredients, 1, ROne, i, FALSE)

\* a cycle-terminated leaf of count 2 below a node of count 2 adds 1, not 4
C14_Witness ==
    /\ ViewCall
    /\ \E i \in Items : \E p \in CycleLeaves(result.tree, i) :
          /\ PathProduct(result.tree, p) = 4
          /\ PlainLeaves(result.tree, i) = {}
          /\ RawQuantity(result.raw_items, i) = 1

(* -------------------------- longest to fill ---------------------------- *)

\* the entries of raw_items bought by buy order at a positive hourly rate
BuyOrderEntries(raw_items) ==
    {k \in 1..Len(raw_items) :
        /\ market[raw_items[k].name].method = "Buy Order"
        /\ market[raw_items[k].name].hourly_instasells > 0}

\* quantity needed / hourly sell-through rate
FillRatio(raw_items, k) ==
    Rat(raw_items[k].quantity, market[raw_items[k].name].hourly_instasells)

WithoutInstabuy(raw_items) ==
    SelectSeq(raw_items, LAMBDA e : market[e.name].method # "Instabuy")

UnfilledBuyOrder(i) ==
    market[i].method = "Buy Order" /\ market[i].hourly_instasells <= 0

\* C16: when a raw material acquired by buy order has no positive throughput
\* rate the fill-time estimate of the plan is +infinity: in
\* find_longest_to_fill, in calculate_sell_fill_time and in the per-ingredient
\* total_fill_time of query_recipe.
C16_NoRateIsInfinite ==
    /\ (ViewCall /\ \E i \in RawKeys(result.raw_items) : UnfilledBuyOrder(i))
          => /\ result.longest_to_fill.found
             /\ result.longest_to_fill.time_to_fill = RInf
    /\ \A n \in 1..MaxQty : calculate_sell_fill_time(n, 0) = RInf
    /\ (call.fn = "query_recipe" /\ result.found) =>
          \A k \in 1..Len(result.aggregated) :
              UnfilledBuyOrder(result.aggregated[k].name)
                 => /\ result.aggregated[k].total_fill_time = RInf
                    /\ result.overall_aggregated_fill_time = RInf

(* --------------------------- repeated calls ---------------------------- *)

Alone(t) == build_recipe_tree(threads[t].item, TopLevelVisited({}), RecursionLimit)

\* C18: when two top-level build_recipe_tree calls for different items run
\* interleaved over the same recipe graph and price tables, each returns the
\* result it returns when it runs alone, and each leaves its own visited set
\* empty: the calls share no mutable state.
C18_InterleavedAsAlone ==
    \A t \in Threads :
        /\ threads[t].state = "done" =>
              /\ ~Alone(t).raised
              /\ threads[t].tree = Alone(t).tree
              /\ heap[t] = Alone(t).visited
        /\ threads[t].state = "raised" => Alone(t).raised

\* both callers have finished, each entered an item while the other caller
\* held that item in its visited set, and both returned crafting nodes
C18_Witness ==
    /\ \A t \in Threads :
          /\ threads[t].state = "done"
          /\ threads[t].crossed
          /\ threads[t].tree.note = "crafting"
    /\ threads[1].item # threads[2].item

(* ------------------------------- C19 ---------------------------------- *)

\* the tree with every declared output quantity 0 replaced by 1
RECURSIVE ZeroAsOne(_)
ZeroAsOne(tree) ==
    [item |-> tree.item,
     kind |-> tree.kind,
     output_count |-> IF tree.output_count = 0 THEN 1 ELSE tree.output_count,
     ingredients |->
        [k \in 1..Len(tree.ingredients) |->
            [item |-> tree.ingredients[k].item,
             count |-> tree.ingredients[k].count,
             sub_recipe |-> ZeroAsOne(tree.ingredients[k].sub_recipe)]]]

\* the plan get_optimal_recipe returns for an item whose recipe has output
\* quantity 1, from the plans of its ingredients
PlanForOutputOne(item) ==
    LET loop == ExpansionOf(item)
    IN  IF /\ has_price(item) /\ loop.has_all_prices
           /\ RGeq(loop.total_cost, <<item_price(item), 1>>)
        THEN Single(item)
        ELSE loop.optimal_ingredients

\* C19: a recipe whose declared output quantity is 0 is resolved as if its
\* output quantity were 1: get_optimal_recipe and flatten_recipe raise no
\* division error on it and return the plan they return for output quantity 1.
C19_ZeroOutputAsOne ==
    /\ (/\ call.fn = "get_optimal_recipe"
        /\ recipes[call.item] # <<>>
        /\ ChosenOptimalRecipe(call.item).count = 0
        /\ ~ExpansionOf(call.item).raised)
       => /\ result.error = ""
          /\ result.plan = PlanForOutputOne(call.item)
    /\ (/\ call.fn = "query_recipe_with_prices"
        /\ result.found
        /\ result.tree.kind = "craft"
        /\ ZeroAsOne(result.tree) # result.tree)
       => /\ result.error = ""
          /\ result.flattened = flatten_recipe(ZeroAsOne(result.tree))

(* ------------------------------- C20 ---------------------------------- *)

\* the quantity of a slot when a quantity part that does not parse counts as 1
QuantityOrOne(text) == IF text \in MalformedTexts THEN 1 ELSE int(text)

HasMalformedSlot(recipe) ==
    \E k \in 1..Len(recipe.slots) : recipe.slots[k].qty \in MalformedTexts

\* the summed quantity of an ingredient over the slots of a recipe
RECURSIVE QuantityOf(_, _, _)
QuantityOf(slots, k, name) ==
    IF k > Len(slots) THEN 0
    ELSE (IF slots[k].item = name THEN QuantityOrOne(slots[k].qty) ELSE 0)
         + QuantityOf(slots, k + 1, name)

\* slot quantity x sub-plan quantity of raw item i, summed over the slots
RECURSIVE SlotSumOrOne(_, _, _, _)
SlotSumOrOne(item, slots, k, i) ==
    IF k > Len(slots) THEN RZero
    ELSE RAdd(RMulInt(SubPlan(item, slots[k].item)[i], QuantityOrOne(slots[k].qty)),
              SlotSumOrOne(item, slots, k + 1, i))

\* build_recipe_tree on a recipe with a quantity part that does not parse
BuildTreatsAsOne ==
    (/\ call.fn = "build_recipe_tree"
     /\ HasRecipe(call.item)
     /\ HasMalformedSlot(data[call.item][1]))
    => /\ ~result.raised
       /\ (result.tree.name = call.item /\ result.tree.note \in CraftNotes) =>
             \A k \in 1..Len(result.tree.children) :
                result.tree.children[k].count
                  = QuantityOf(data[call.item][1].slots, 1, result.tree.children[k].name)

\* get_recipe_tree on a recipe with a quantity part that does not parse
TreeTreatsAsOne ==
    (/\ call.fn \in {"get_recipe_tree", "query_recipe_with_prices"}
     /\ valid_recipes(call.item) # <<>>
     /\ HasMalformedSlot(ChosenTreeRecipe(call.item)))
    => LET tree == IF call.fn = "get_recipe_tree" THEN result ELSE result.tree
       IN  /\ tree.kind = "craft"
           /\ \A k \in 1..Len(tree.ingredients) :
                 tree.ingredients[k].count
                   = QuantityOf(ChosenTreeRecipe(call.item).slots, 1, tree.ingredients[k].item)

\* get_optimal_recipe on a recipe with a quantity part that does not parse
OptimalTreatsAsOne ==
    (/\ call.fn = "get_optimal_recipe"
     /\ recipes[call.item] # <<>>
     /\ ChosenOptimalRecipe(call.item).count > 0
     /\ HasMalformedSlot(ChosenOptimalRecipe(call.item)))
    => /\ result.error = ""
       /\ \/ result.plan = Single(call.item)
          \/ \A i \in Items :
                RMulInt(result.plan[i], ChosenOptimalRecipe(call.item).count)
                  = SlotSumOrOne(call.item, ChosenOptimalRecipe(call.item).slots, 1, i)

\* C20: a recipe slot whose quantity part does not parse as an integer is
\* treated as quantity 1 by build_recipe_tree, get_recipe_tree and
\* get_optimal_recipe, and resolution of the item completes without an error.
C20_UnparsedQuantityIsOne ==
    /\ BuildTreatsAsOne
    /\ TreeTreatsAsOne
    /\ OptimalTreatsAsOne

(* ------------------------------- C24 ---------------------------------- *)

\* the recipe of the item makes more than one item per craft
MultipleOutput(i) == HasRecipe(i) /\ data[i][1].count > 1

\* every node named after such an item, unless the name is among its
\* ancestors, is the childless multiple-output node at the bazaar price
RECURSIVE MultipleOutputOK(_, _)
MultipleOutputOK(t, anc) ==
    /\ (MultipleOutput(t.name) /\ t.name \notin anc) =>
          /\ t.children = <<>>
          /\ t.note = "base item (multiple output)"
          /\ t.cost = prices[t.name]
    /\ \A k \in 1..Len(t.children) : MultipleOutputOK(t.children[k], anc \cup {t.name})

\* C24: build_recipe_tree never expands an item whose recipe output count is
\* greater than 1: for such an item not in the ancestor set it returns a
\* childless node noted 'base item (multiple output)' whose cost is the item's
\* bazaar price, or 0 when it has none, without resolving any ingredient.
C24_MultipleOutputNotExpanded ==
    (call.fn = "build_recipe_tree" /\ ~result.raised) =>
        /\ MultipleOutputOK(result.tree, {})
        /\ MultipleOutput(call.item) =>
              result.tree = Leaf(call.item, "base item (multiple output)", prices[call.item])

\* a crafted item over an ingredient of output count 2 whose own ingredient
\* would have been cheaper than the ingredient's bazaar price
C24_Witness ==
    /\ call.fn = "build_recipe_tree" /\ ~result.raised
    /\ result.tree.note = "crafting"
    /\ \E k \in 1..Len(result.tree.children) :
          LET c == result.tree.children[k]
          IN  /\ MultipleOutput(c.name)
              /\ c.note = "base item (multiple output)"
              /\ \E j \in 1..Len(data[c.name][1].slots) :
                    LET s == data[c.name][1].slots[j]
                    IN  prices[s.item] > 1 /\ prices[s.item] * int(s.qty) < c.cost

(* ------------------------------- C25 ---------------------------------- *)

\* every node lying exactly left edges below t is a base item without
\* ingredients
RECURSIVE BaseAtDepth(_, _)
BaseAtDepth(t, left) ==
    IF left = 0 THEN t.kind = "base" /\ t.ingredients = <<>>
    ELSE \A k \in 1..Len(t.ingredients) : BaseAtDepth(t.ingredients[k].sub_recipe, left - 1)

DepthLimited(tree, item, d) ==
    IF d >= 1 THEN NodeDepth(tree) <= d /\ BaseAtDepth(tree, d)
    ELSE tree = BaseNode(item)

\* C25: get_recipe_tree called with max_depth = d >= 1 returns a tree in which
\* no node lies more than d ingredient edges below the root and every node at
\* d edges is a base item without ingredients; with max_depth <= 0 the root
\* itself is returned as a base item.
C25_MaxDepthCutsTree ==
    /\ call.fn = "get_recipe_tree(max_depth)" =>
          DepthLimited(result, call.item, call.max_depth)
    /\ (call.fn = "query_recipe_with_prices" /\ result.found) =>
          DepthLimited(result.tree, call.item, QueryDepth)

\* a recipe chain longer than max_depth: the cut is made at a node whose item
\* has a recipe, and at a repeated item of a cycle
C25_Witness ==
    /\ call.fn = "get_recipe_tree(max_depth)"
    /\ call.max_depth = 2
    /\ NodeDepth(result) = 2
    /\ \E k \in 1..Len(result.ingredients) :
          LET sub == result.ingredients[k].sub_recipe
          IN  \E j \in 1..Len(sub.ingredients) :
                 LET cut == sub.ingredients[j].sub_recipe
                 IN  /\ cut.kind = "base"
                     /\ valid_recipes(cut.item) # <<>>
                     /\ cut.item = call.item

(* ------------------------------- C28 ---------------------------------- *)

\* the items of the calls of a caller that have passed visited.add
AddedByStack(stack) == {stack[k].item : k \in {j \in 1..Len(stack) : stack[j].pc # "enter"}}

\* C28: every call of build_recipe_tree, on whichever return path it leaves,
\* returns with the shared visited set equal to its value at entry, so that
\* each ingredient of a recipe is resolved against exactly the set of its own
\* ancestors and never against items added by a sibling's resolution.
C28_VisitedRestored ==
    /\ call.fn = "build_recipe_tree" =>
          \A i \in Items, entry \in SUBSET Items :
             LET r == build_recipe_tree(i, entry, RecursionLimit)
             IN  ~r.raised => r.visited = entry
    /\ \A t \in Threads :
          /\ threads[t].state = "running" =>
                heap[threads[t].visited] = AddedByStack(threads[t].stack)
          /\ threads[t].state = "done" => heap[threads[t].visited] = {}

\* the second ingredient of a recipe is entered after its sibling was resolved
\* into a crafting node with children of its own: the set holds the parent only
C28_Witness ==
    \E t \in Threads :
        /\ threads[t].state = "running"
        /\ Len(threads[t].stack) = 2
        /\ TopFrame(threads[t]).pc = "enter"
        /\ LET parent == threads[t].stack[1]
           IN  /\ Len(parent.kids) = 1
               /\ parent.kids[1].children # <<>>
               /\ heap[threads[t].visited] = {parent.item}

(* ------------------------------- C29 ---------------------------------- *)

\* the children of every node with children are named after the merged
\* ingredients of the node's item, in their order
RECURSIVE ChildrenNamed(_)
ChildrenNamed(t) ==
    \A k \in 1..Len(t.children) :
        /\ t.children[k].name = IngredientList(t.name)[k].name
        /\ ChildrenNamed(t.children[k])

\* C29: the node returned by build_recipe_tree for an item always has that
\* item as its name, for every recipe graph and every price table, including
\* items that have no bazaar or auction price above 1.
C29_NodeNamedAfterItem ==
    (call.fn = "build_recipe_tree" /\ ~result.raised) =>
        /\ result.tree.name = call.item
        /\ ChildrenNamed(result.tree)

(* ------------------------------- C30 ---------------------------------- *)

\* main, lines 314-326: total_price, the bazaar price of each raw item (the
\* auction price when it has none) times its quantity
RECURSIVE total_price(_, _)
total_price(raw_items, k) ==
    IF k > Len(raw_items) THEN 0
    ELSE LET item == raw_items[k].name
             price == IF prices[item] # 0 THEN prices[item]
                      ELSE fetch_lowest_auction_price(item)
         IN  price * raw_items[k].quantity + total_price(raw_items, k + 1)

FILTER_PRINT_LIMIT == 10

\* gg.py, zzz/gg.py: MIN_PROFIT_RATIO = 1.15, as the fraction 23/20
MIN_PROFIT_RATIO == <<23, 20>>

\* an entry of the parsed file that is null: `not item` holds of it
NullItem == [null |-> TRUE]

\* an entry of the parsed file that is the dictionary of one product
ProductItem(sp, bp, sell_freq, sell_size, order_freq, order_size) ==
    [null |-> FALSE,
     buy_price_average |-> sp, sell_price_average |-> bp,
     sell_frequency |-> sell_freq, sell_size |-> sell_size,
     order_frequency_average |-> order_freq, order_size_average |-> order_size]

\* what one call hands back: the new filter_print_count, the sign of the
\* returned profit (0 for 0.0) and the status message, as its template
\* followed by the values formatted into it
Returns(count, profit_sign, message) ==
    [count |-> count, profit_sign |-> profit_sign, message |-> message]

MayReportAlways(count) == TRUE

\* `if filter_print_count < FILTER_PRINT_LIMIT`
MayReport(count) == count < FILTER_PRINT_LIMIT

\* a failed filter: the detailed message and one more on the counter while
\* the limit is not reached, the short message after
FilterFail(count, detailed_message, short_message) ==
    IF MayReport(count)
    THEN Returns(count + 1, 0, detailed_message)
    ELSE Returns(count, 0, <<short_message>>)

\* gg.py, step 2 of calculate_profit_for_item for bp > 0 and sp / bp >= 1.15
\* over integers.  With d = tba - tsa: a = bp * d, c = -C_MAX * tba * cbo <= 0
\* and b ** 2 - 4 * a * c >= 0.  For d > 0, tba > 0 and cbo > 0, so a * c < 0
\* and mbo > 0.  For d < 0, mbo <= 0 exactly when c = 0, that is tba = 0.
\* The profit (sp - bp) * (mbo / (mbo + cbo)) * tsa * 60 has the sign of tsa.
Calculation(item, count) ==
    LET tsa == item.sell_frequency * item.sell_size
        tba == item.order_frequency_average * item.order_size_average
    IN  IF tba = tsa
        THEN Returns(count, 0, <<"Identical buy/sell volume, invalidates formula.">>)
        ELSE IF tba < tsa /\ tba = 0
        THEN Returns(count, 0, <<"No profitable buy order rate possible.">>)
        ELSE Returns(count, IF tsa > 0 THEN 1 ELSE 0, <<"Success">>)

\* gg.py: calculate_profit_for_item(item) with filter_print_count = count
calculate_profit_for_item(item, count) ==
    IF item.null
    THEN Returns(count, 0, <<"Invalid item data (was null).">>)
    ELSE LET sp == item.buy_price_average
             bp == item.sell_price_average
         IN  IF bp <= 0
             THEN Returns(count, 0, <<"Buy price is zero or negative.">>)
             ELSE IF sp * MIN_PROFIT_RATIO[2] < MIN_PROFIT_RATIO[1] * bp
             THEN FilterFail(count,
                             <<"Margin is {}x, which is below the {}x minimum.",
                               Rat(sp, bp), MIN_PROFIT_RATIO>>,
                             "Margin below minimum.")
             ELSE Calculation(item, count)

\* x < y over fractions
RLess(x, y) == ~RGeq(x, y)

\* an averaged item of zzz/gg.py: every statistic is a fraction sum / count
AveragedItem(sp, bp, sell_freq, sell_size, order_freq, order_size) ==
    ProductItem(sp, bp, sell_freq, sell_size, order_freq, order_size)

\* zzz/gg.py: calculate_profit_for_item(item) with filter_print_count = count.
\* Past the filters sell_size > order_size >= 0, sell_freq > order_freq >= 0
\* and sp > bp > 0, so mbo = C_MAX / (AVG_ORDER_LIFETIME_MINUTES * bp) > 0
\* and the profit (sp - bp) * (mbo / (mbo + cbo)) * tsa * 60 is positive.
zzz_calculate_profit_for_item(item, count) ==
    IF item.null
    THEN Returns(count, 0, <<"Invalid item data.">>)
    ELSE LET sp == item.buy_price_average
             bp == item.sell_price_average
             sell_size == item.sell_size
             order_size == item.order_size_average
             sell_freq == item.sell_frequency
             order_freq == item.order_frequency_average
         IN  IF RGeq(order_size, sell_size)
             THEN FilterFail(count,
                             <<"Sell size ({}) not > order size ({}).",
                               sell_size, order_size>>,
                             "Size filter fail.")
             ELSE IF RGeq(order_freq, sell_freq)
             THEN FilterFail(count,
                             <<"Order freq ({}) not < sell freq ({}).",
                               order_freq, sell_freq>>,
                             "Frequency filter fail.")
             ELSE IF bp[1] <= 0
             THEN Returns(count, 0, <<"Buy price is zero.">>)
             ELSE IF RLess(Rat(sp[1] * bp[2], sp[2] * bp[1]), MIN_PROFIT_RATIO)
             THEN FilterFail(count,
                             <<"Margin is {}x, below the {}x minimum.",
                               Rat(sp[1] * bp[2], sp[2] * bp[1]), MIN_PROFIT_RATIO>>,
                             "Margin below minimum.")
             ELSE Returns(count, 1, <<"Success">>)

\* the templates of the detailed filter-failure messages
DetailedTemplates ==
    {"Margin is {}x, which is below the {}x minimum.",
     "Sell size ({}) not > order size ({}).",
     "Order freq ({}) not < sell freq ({}).",
     "Margin is {}x, below the {}x minimum."}

\* entries of info.json: null, and products around the 1.15 margin
ParsedItems ==
    {NullItem} \cup
    {ProductItem(sp, bp, sf, ss, of, os) :
        sp \in {22, 23}, bp \in {0, 20}, sf \in {1, 2}, ss \in {0, 1},
        of \in {0, 1}, os \in {1, 2}}

\* averaged items of the info folder: sums over one or two files
AveragedItems ==
    {AveragedItem(Rat(sp, c), Rat(bp, c), Rat(sf, c), Rat(ss, c),
                  Rat(of, c), Rat(os, c)) :
        sp \in {22, 23}, bp \in {0, 20}, sf \in {1, 2}, ss \in {1, 2},
        of \in {0, 1, 2}, os \in {1}, c \in {1, 2}}

\* the module as imported: filter_print_count = 0, nothing reported yet
InitProfit ==
    /\ program \in {"gg.py", "zzz/gg.py"}
    /\ ResolversIdle
    /\ files = <<>>
    /\ AnalysersIdle
    /\ FetchersIdle
    /\ call = NoCall
    /\ result = <<>>

\* the state a call of calculate_profit_for_item leaves; detailed counts the
\* calls that returned a detailed filter-failure message
Calculated(item, returned) ==
    /\ call' = [fn |-> "calculate_profit_for_item", item |-> item]
    /\ result' = [profit_sign |-> returned.profit_sign, message |-> returned.message]
    /\ filter_print_count' = returned.count
    /\ detailed' = IF returned.message[1] \in DetailedTemplates
                   THEN detailed + 1 ELSE detailed
    /\ UNCHANGED <<program, resolvers, files, futures, final_aggregated_stats,
                   fetchers>>

\* gg.py: analyze_best_profit calls calculate_profit_for_item on an entry
CallCalculateProfit ==
    \E item \in ParsedItems :
        /\ program = "gg.py"
        /\ Calculated(item, calculate_profit_for_item(item, filter_print_count))

\* zzz/gg.py: analyze_folder calls calculate_profit_for_item on an averaged item
CallCalculateProfitAveraged ==
    \E item \in AveragedItems :
        /\ program = "zzz/gg.py"
        /\ Calculated(item, zzz_calculate_profit_for_item(item, filter_print_count))

NextProfit ==
    \/ CallCalculateProfit
    \/ CallCalculateProfitAveraged

SpecProfit == InitProfit /\ [][NextProfit]_vars

\* gg.py: the entry fails the margin filter
FailsMargin(item) ==
    /\ ~item.null
    /\ item.sell_price_average > 0
    /\ 20 * item.buy_price_average < 23 * item.sell_price_average

\* zzz/gg.py: the short message of the filter the averaged item fails, "" if none
ShortOf(item) ==
    IF item.null THEN ""
    ELSE IF RGeq(item.order_size_average, item.sell_size) THEN "Size filter fail."
    ELSE IF RGeq(item.order_frequency_average, item.sell_frequency)
    THEN "Frequency filter fail."
    ELSE IF item.sell_price_average[1] > 0
            /\ 20 * item.buy_price_average[1] * item.sell_price_average[2]
               < 23 * item.sell_price_average[1] * item.buy_price_average[2]
    THEN "Margin below minimum."
    ELSE ""

\* the call just made failed a filter: the short message it must return
\* once the limit is used up, "" if it failed none
ShortExpected ==
    IF program = "gg.py"
    THEN IF FailsMargin(call'.item) THEN "Margin below minimum." ELSE ""
    ELSE ShortOf(call'.item)

\* C27: filter_print_count never exceeds FILTER_PRINT_LIMIT and never
\* decreases, at most FILTER_PRINT_LIMIT calls return a detailed
\* filter-failure message, and once that many have, every call that fails a
\* filter returns the short message of that filter with profit 0.0
C27_FilterPrintCountLimited ==
    /\ [](filter_print_count <= FILTER_PRINT_LIMIT /\ detailed <= FILTER_PRINT_LIMIT)
    /\ [][/\ filter_print_count' >= filter_print_count
          /\ (detailed = FILTER_PRINT_LIMIT /\ ShortExpected # "")
             => /\ result'.message = <<ShortExpected>>
                /\ result'.profit_sign = 0]_vars

\* the limit is used up and a call that fails a filter got the short message
C27_Witness ==
    /\ program = "zzz/gg.py"
    /\ filter_print_count = FILTER_PRINT_LIMIT
    /\ detailed = FILTER_PRINT_LIMIT
    /\ call.fn = "calculate_profit_for_item"
    /\ ShortOf(call.item) = "Frequency filter fail."
    /\ result.message = <<"Frequency filter fail.">>
    /\ result.profit_sign = 0

(* ---------------- zzz/gg.py: process_single_file, analyze_folder ------- *)

\* significant bits of a float of the model (53 in CPython); the values of
\* the model are whole numbers of the smallest unit, so that sums reach the
\* precision within a few additions
MantissaBits == 3

\* most files of the info folder
MaxFiles == 3

\* the spacing of the floats around n
RECURSIVE Ulp(_)
Ulp(n) == IF n < 2 ^ MantissaBits THEN 1 ELSE 2 * Ulp(n \div 2)

\* the float nearest to n, ties to the even significand
Round(n) ==
    LET s == Ulp(n)
        q == n \div s
        r == n % s
    IN  IF 2 * r < s THEN q * s
        ELSE IF 2 * r > s THEN (q + 1) * s
        ELSE IF q % 2 = 0 THEN q * s ELSE (q + 1) * s

\* x + y over floats, as `+=` computes it
FloatAdd(x, y) == Round(x + y)

\* process_single_file: stat_keys
stat_keys ==
    <<"buy_price_average", "sell_price_average", "order_frequency_average",
      "order_size_average", "sell_frequency", "sell_size">>

\* {key: 0.0 for key in stat_keys} with ['count'] = 0
ZeroStats ==
    [buy_price_average |-> 0, sell_price_average |-> 0,
     order_frequency_average |-> 0, order_size_average |-> 0,
     sell_frequency |-> 0, sell_size |-> 0, count |-> 0]

\* an entry of a file: product_id ("" when missing), the statistics it
\* holds, and the keys whose value is null; null marks an entry that is
\* no dictionary
Entry(product_id, stats, nulls) ==
    [null |-> FALSE, product_id |-> product_id, stats |-> stats, nulls |-> nulls]

NullEntry == [null |-> TRUE, product_id |-> "", stats |-> <<>>, nulls |-> {}]

\* item.get(key, 0.0)
Get(item, key) == IF key \in DOMAIN item.stats THEN item.stats[key] ELSE 0

\* a file that parses to the list of entries
Parsed(entries) == [unreadable |-> FALSE, entries |-> entries]

\* a file that cannot be opened or parsed
Unreadable == [unreadable |-> TRUE, entries |-> <<>>]

\* the place of product_id in a dictionary kept in insertion order, 0 if absent
PlaceOf(dict, product_id) ==
    IF \E k \in 1..Len(dict) : dict[k].product_id = product_id
    THEN CHOOSE k \in 1..Len(dict) : dict[k].product_id = product_id
    ELSE 0

\* what a worker hands back: None, or its local_aggregated_stats
WorkerNone == [none |-> TRUE, stats |-> <<>>]

WorkerStats(local) == [none |-> FALSE, stats |-> local]

\* lines 52-54: the statistics of one entry added to those of its product
AddEntry(stats, item) ==
    [key \in DOMAIN stats |->
        IF key = "count" THEN stats[key] + 1
        ELSE FloatAdd(stats[key], Get(item, key))]

\* process_single_file, the loop over data from entry k on
RECURSIVE ProcessEntries(_, _, _)
ProcessEntries(entries, k, local) ==
    IF k > Len(entries) THEN WorkerStats(local)
    ELSE LET item == entries[k]
             at == PlaceOf(local, item.product_id)
         IN  IF item.null \/ item.product_id = ""
             THEN ProcessEntries(entries, k + 1, local)
             ELSE IF item.nulls # {}
             THEN WorkerNone
             ELSE IF at = 0
             THEN ProcessEntries(entries, k + 1,
                      Append(local, [product_id |-> item.product_id,
                                     stats |-> AddEntry(ZeroStats, item)]))
             ELSE ProcessEntries(entries, k + 1,
                      [local EXCEPT ![at].stats = AddEntry(@, item)])

\* process_single_file(file_path) on the file's content
process_single_file(file) ==
    IF file.unreadable THEN WorkerNone
    ELSE ProcessEntries(file.entries, 1, <<>>)

\* lines 133-136: a partial result added to the statistics already merged
MergeStats(mine, stats) ==
    [key \in DOMAIN mine |->
        IF key = "count" THEN mine[key] + stats[key]
        ELSE FloatAdd(mine[key], stats[key])]

\* lines 129-136: the loop over partial_result.items() from place k on
RECURSIVE MergePartial(_, _, _)
MergePartial(final, partial, k) ==
    IF k > Len(partial) THEN final
    ELSE LET at == PlaceOf(final, partial[k].product_id)
         IN  IF at = 0
             THEN MergePartial(Append(final, partial[k]), partial, k + 1)
             ELSE MergePartial(
                      [final EXCEPT ![at].stats = MergeStats(@, partial[k].stats)],
                      partial, k + 1)

\* lines 125-136: one round of the as_completed loop
MergeResult(final, partial_result) ==
    IF partial_result.none THEN final
    ELSE MergePartial(final, partial_result.stats, 1)

\* lines 149-155: the averaged item of one product, each statistic the
\* fraction sum / count
Averaged(stats) ==
    AveragedItem(Rat(stats.buy_price_average, stats.count),
                 Rat(stats.sell_price_average, stats.count),
                 Rat(stats.sell_frequency, stats.count),
                 Rat(stats.sell_size, stats.count),
                 Rat(stats.order_frequency_average, stats.count),
                 Rat(stats.order_size_average, stats.count))

\* statuses that keep an item out of the filter report
QuietStatuses ==
    {"Margin below minimum.", "Size filter fail.", "Frequency filter fail.", "Success"}

\* lines 158-166 from product k on: the counter, the products with a profit
\* above 0 and the statuses of the skipped ones
RECURSIVE AnalyzeAveraged(_, _, _)
AnalyzeAveraged(final, k, acc) ==
    IF k > Len(final) THEN acc
    ELSE LET returned == zzz_calculate_profit_for_item(Averaged(final[k].stats),
                                                       acc.count)
             id == final[k].product_id
         IN  AnalyzeAveraged(final, k + 1,
                 [count |-> returned.count,
                  detailed |-> IF returned.message[1] \in DetailedTemplates
                               THEN acc.detailed + 1 ELSE acc.detailed,
                  results |-> IF returned.profit_sign > 0
                              THEN acc.results \cup {id} ELSE acc.results,
                  skipped_items |->
                      IF returned.profit_sign <= 0
                         /\ returned.message[1] \notin QuietStatuses
                      THEN [p \in DOMAIN acc.skipped_items \cup {id} |->
                               IF p = id THEN returned.message
                               ELSE acc.skipped_items[p]]
                      ELSE acc.skipped_items])

\* the futures of a folder: every file submitted, none completed
Submitted(paths) ==
    [f \in DOMAIN paths |-> [state |-> "running", result |-> WorkerNone]]

\* the values the statistics of the files take
StatValues == {1, 2 ^ MantissaBits}

\* the contents the files of the folder may have
FolderFiles ==
    {Unreadable, Parsed(<<>>)}
    \cup {Parsed(<<Entry("P", [buy_price_average |-> v], {})>>) : v \in StatValues}
    \cup {Parsed(<<NullEntry,
                   Entry("Q", [sell_size |-> 1], {}),
                   Entry("P", [buy_price_average |-> 1, sell_size |-> 1], {}),
                   Entry("", [sell_size |-> 1], {})>>),
          Parsed(<<Entry("P", [buy_price_average |-> 1], {}),
                   Entry("Q", [sell_size |-> 1], {"sell_size"})>>)}

\* analyze_folder after executor.submit of every file of the folder
InitFolder ==
    /\ program = "zzz/gg.py"
    /\ ResolversIdle
    /\ \E n \in 1..MaxFiles : files \in [1..n -> FolderFiles]
    /\ futures = Submitted(files)
    /\ final_aggregated_stats = <<>>
    /\ filter_print_count = 0
    /\ detailed = 0
    /\ FetchersIdle
    /\ call = [fn |-> "analyze_folder", item |-> "A"]
    /\ result = <<>>

\* a worker thread returns from process_single_file
WorkerCompletes(f) ==
    /\ program = "zzz/gg.py"
    /\ f \in DOMAIN futures
    /\ futures[f].state = "running"
    /\ futures' = [futures EXCEPT ![f] = [state |-> "done",
                                         result |-> process_single_file(files[f])]]
    /\ UNCHANGED <<program, call, result, resolvers, files,
                   filter_print_count, detailed, final_aggregated_stats,
                   fetchers>>

\* as_completed yields a completed future and the loop body merges it
MergeCompleted(f) ==
    /\ program = "zzz/gg.py"
    /\ f \in DOMAIN futures
    /\ futures[f].state = "done"
    /\ futures' = [futures EXCEPT ![f].state = "merged"]
    /\ final_aggregated_stats' =
           MergeResult(final_aggregated_stats, futures[f].result)
    /\ UNCHANGED <<program, call, result, resolvers, files,
                   filter_print_count, detailed, fetchers>>

\* every future has been merged
AllMerged ==
    /\ futures # <<>>
    /\ \A f \in DOMAIN futures : futures[f].state = "merged"

\* lines 138-191: the averages and their analysis, once the loop has ended
ReportAveraged ==
    /\ program = "zzz/gg.py"
    /\ AllMerged
    /\ call.fn = "analyze_folder"
    /\ result = <<>>
    /\ LET acc == AnalyzeAveraged(final_aggregated_stats, 1,
                      [count |-> filter_print_count, detailed |-> detailed,
                       results |-> {}, skipped_items |-> <<>>])
       IN  /\ result' = [results |-> acc.results,
                         skipped_items |-> acc.skipped_items]
           /\ filter_print_count' = acc.count
           /\ detailed' = acc.detailed
    /\ UNCHANGED <<program, call, resolvers, files, futures,
                   final_aggregated_stats, fetchers>>

NextFolder ==
    \/ \E f \in 1..MaxFiles : WorkerCompletes(f)
    \/ \E f \in 1..MaxFiles : MergeCompleted(f)
    \/ ReportAveraged

SpecFolder == InitFolder /\ [][NextFolder]_vars

\* a dictionary kept in insertion order, as the map from its keys
AsMap(dict) ==
    [p \in {dict[k].product_id : k \in 1..Len(dict)} |->
        dict[PlaceOf(dict, p)].stats]

\* the aggregate when the workers complete in the order of the listing, the
\* files from place f on
RECURSIVE InListingOrder(_, _, _)
InListingOrder(paths, f, final) ==
    IF f > Len(paths) THEN final
    ELSE InListingOrder(paths, f + 1,
                        MergeResult(final, process_single_file(paths[f])))

\* the files whose worker returns statistics
Processed(paths) ==
    SelectSeq(paths, LAMBDA file : ~process_single_file(file).none)

\* C23: the aggregated sums and counts of every product are the same for
\* every order in which the workers complete, namely those of the listing
\* order over the files whose worker did not fail
C23_AggregateOrderIndependent ==
    AllMerged
    => AsMap(final_aggregated_stats)
       = AsMap(InListingOrder(Processed(files), 1, <<>>))

(* ---------------- engine.py, test.py: load_recipes --------------------- *)

\* most files of the first directory
MaxDirFiles == 2

\* the recipe types load_recipes leaves out
ExcludedTypes == {"forge", "katgrade", "trade"}

\* an element of data['recipes'], or data['recipe'], that is a dictionary;
\* type "" stands for a recipe without the key 'type'
RecipeDoc(type, id) == [dict |-> TRUE, type |-> type, id |-> id]

\* an element that is no dictionary: r.get raises on it
NotADict == [dict |-> FALSE, type |-> "", id |-> 0]

\* a file json.load reads as a dictionary: internalname ("" when the key is
\* missing), which of the keys 'recipes' and 'recipe' the first branch that
\* applies finds ("none" for neither), and the recipes under that key
Document(internalname, key, found) ==
    [loads |-> TRUE, internalname |-> internalname, key |-> key, found |-> found]

\* a file on which open or json.load raises
Unloadable == [loads |-> FALSE, internalname |-> "", key |-> "none", found |-> <<>>]

\* a directory of the file system
Directory(listing) == [exists |-> TRUE, listing |-> listing]

Missing == [exists |-> FALSE, listing |-> <<>>]

IsValidAlways(r) == TRUE

\* `not r.get('type') in ['forge', 'katgrade', 'trade']`
IsValid(r) == r.type \notin ExcludedTypes

\* recipes[name] = value
Assign(loaded, name, value) ==
    [i \in DOMAIN loaded \cup {name} |-> IF i = name THEN value ELSE loaded[i]]

\* the body of the loop over path.glob('*.json') for one file: an exception
\* of open, json.load or r.get leaves the try block before the assignment
LoadFile(loaded, file) ==
    IF ~file.loads THEN loaded
    ELSE IF file.internalname = "" THEN loaded
    ELSE IF file.key = "recipes"
    THEN IF \E k \in 1..Len(file.found) : ~file.found[k].dict
         THEN loaded
         ELSE LET kept == SelectSeq(file.found, IsValid)
              IN  IF kept # <<>>
                  THEN Assign(loaded, file.internalname, kept)
                  ELSE loaded
    ELSE IF file.key = "recipe"
    THEN IF ~file.found[1].dict
         THEN loaded
         ELSE IF IsValid(file.found[1])
         THEN Assign(loaded, file.internalname, <<file.found[1]>>)
         ELSE loaded
    ELSE loaded

\* the loop over the files of one directory from place k on
RECURSIVE LoadListing(_, _, _)
LoadListing(loaded, listing, k) ==
    IF k > Len(listing) THEN loaded
    ELSE LoadListing(LoadFile(loaded, listing[k]), listing, k + 1)

\* test.py: load_recipes(directories), the directories from place d on;
\* engine.py: load_recipes(directory) is the same over the one directory
RECURSIVE load_recipes(_, _, _)
load_recipes(loaded, directories, d) ==
    IF d > Len(directories) THEN loaded
    ELSE IF ~directories[d].exists
    THEN load_recipes(loaded, directories, d + 1)
    ELSE load_recipes(LoadListing(loaded, directories[d].listing, 1),
                      directories, d + 1)

\* the files recipe directories may hold
RecipeFiles ==
    {Unloadable,
     Document("A", "recipes", <<RecipeDoc("forge", 1)>>),
     Document("A", "recipes", <<RecipeDoc("crafting", 1), RecipeDoc("forge", 2)>>),
     Document("A", "recipes", <<RecipeDoc("crafting", 3), NotADict>>),
     Document("A", "recipes", <<>>),
     Document("B", "recipes", <<RecipeDoc("katgrade", 1), RecipeDoc("", 2)>>),
     Document("B", "recipe", <<RecipeDoc("trade", 1)>>),
     Document("B", "recipe", <<RecipeDoc("", 3)>>),
     Document("B", "recipe", <<NotADict>>),
     Document("", "recipes", <<RecipeDoc("crafting", 4)>>),
     Document("C", "none", <<>>)}

\* the listings of a directory of at most n files
Listings(n) == UNION {[1..k -> RecipeFiles] : k \in 0..n}

\* engine.py reads dependencies/items; test.py reads dependencies/items and
\* exports; a directory may be missing
InitLoad ==
    /\ ResolversIdle
    /\ \/ /\ program = "engine.py"
          /\ \E l \in Listings(MaxDirFiles) : files = <<Directory(l)>>
       \/ /\ program = "engine.py"
          /\ files = <<Missing>>
       \/ /\ program = "test.py"
          /\ \E l \in Listings(MaxDirFiles), e \in Listings(1) :
                files \in {<<Directory(l), Directory(e)>>, <<Missing, Directory(e)>>,
                           <<Directory(l), Missing>>}
    /\ AnalysersIdle
    /\ FetchersIdle
    /\ call = NoCall
    /\ result = <<>>

\* __main__: recipes = load_recipes(...)
CallLoadRecipes ==
    /\ program \in {"engine.py", "test.py"}
    /\ call = NoCall
    /\ call' = [fn |-> "load_recipes", item |-> "A"]
    /\ recipes' = load_recipes(<<>>, files, 1)
    /\ result' = <<>>
    /\ UNCHANGED <<program, data, prices, lbin, market, earlier, threads,
                   heap, others>>

NextLoad == CallLoadRecipes

SpecLoad == InitLoad /\ [][NextLoad]_vars

\* the file raises while it is read: open or json.load fails, or a recipe
\* the file is asked the type of is no dictionary
Raises(file) ==
    \/ ~file.loads
    \/ /\ file.internalname # ""
       /\ file.key # "none"
       /\ \E k \in 1..Len(file.found) : ~file.found[k].dict

\* the directories without the files that raise
WithoutRaising(directories) ==
    [d \in DOMAIN directories |->
        [directories[d] EXCEPT
            !.listing = SelectSeq(@, LAMBDA file : ~Raises(file))]]

\* load_recipes has returned
Loaded == call.fn = "load_recipes"

\* C22: the returned map holds only recipes whose type is not forge,
\* katgrade or trade, maps no item to an empty list, and is the map the
\* same directories give without the files that raise
C22_LoadRecipesFilters ==
    Loaded
    => /\ \A name \in DOMAIN recipes :
             /\ recipes[name] # <<>>
             /\ \A k \in 1..Len(recipes[name]) :
                   recipes[name][k].type \notin {"forge", "katgrade", "trade"}
       /\ recipes = load_recipes(<<>>, WithoutRaising(files), 1)

\* a directory with a file that raises, a file of excluded recipes only and
\* a file of which one recipe is kept
C22_Witness ==
    /\ Loaded
    /\ program = "test.py"
    /\ \E d \in DOMAIN files :
          /\ files[d].exists
          /\ Len(files[d].listing) = 2
          /\ Raises(files[d].listing[1])
          /\ files[d].listing[2].found
             = <<RecipeDoc("crafting", 1), RecipeDoc("forge", 2)>>
    /\ \E d \in DOMAIN files :
          /\ files[d].exists
          /\ Len(files[d].listing) = 1
          /\ files[d].listing[1].found = <<RecipeDoc("trade", 1)>>
    /\ DOMAIN recipes = {"A"}
    /\ recipes["A"] = <<RecipeDoc("crafting", 1)>>

(* ---------------- server10/fetchur.py: run_volatility_analysis --------- *)

\* fetchur.py: STABILITY_THRESHOLD
STABILITY_THRESHOLD == 3

\* fetchur.py: TRACKING_INTERVAL_SECONDS
TRACKING_INTERVAL_SECONDS == 30

\* fetchur.py: REPORT_INTERVAL_CYCLES
REPORT_INTERVAL_CYCLES == 4

\* cycles of the background thread the model follows
MaxCycles == 8

\* None
None == <<>>

\* the products of the bazaar
Products == {"P", "Q"}

\* (buyOrders, sellOrders) of quick_status
OrderCounts == {<<0, 0>>, <<2, 0>>}

\* requests.get or response.json() raises
FetchRaises == [raised |-> TRUE, products |-> <<>>]

\* the response parses; products is response.json().get("products", {}) in
\* the order of the document
Fetched(products) == [raised |-> FALSE, products |-> products]

\* the answers of the API: an exception, a document without products, and
\* documents of one or two products
Responses ==
    {FetchRaises, Fetched(<<>>)}
    \cup {Fetched(<<[product_id |-> p, orders |-> o]>>) :
             p \in Products, o \in OrderCounts}
    \cup {Fetched(<<[product_id |-> "P", orders |-> o],
                    [product_id |-> "Q", orders |-> <<0, 0>>]>>) :
             o \in OrderCounts}

\* |n|
Abs(n) == IF n < 0 THEN -n ELSE n

\* lines 52-57: one more sample of a product
Sampled(analytics, product_id, change) ==
    LET at == PlaceOf(analytics, product_id)
        seen == IF at = 0
                THEN [product_id |-> product_id, total_change |-> 0, samples |-> 0]
                ELSE analytics[at]
        total_change == seen.total_change + change
        samples == seen.samples + 1
        entry == [product_id |-> product_id,
                  total_change |-> total_change,
                  samples |-> samples,
                  avg_per_min |-> RMulInt(Rat(total_change, samples),
                                          60 \div TRACKING_INTERVAL_SECONDS)]
    IN  IF at = 0 THEN Append(analytics, entry)
        ELSE [analytics EXCEPT ![at] = entry]

\* item_states[pid] = orders
Remember(states, product_id, orders) ==
    [p \in DOMAIN states \cup {product_id} |->
        IF p = product_id THEN orders ELSE states[p]]

\* lines 48-58: the loop over current_products.items() from place k on
RECURSIVE TrackProducts(_, _, _, _)
TrackProducts(products, k, states, analytics) ==
    IF k > Len(products) THEN [item_states |-> states, item_analytics |-> analytics]
    ELSE LET pid == products[k].product_id
             orders == products[k].orders
         IN  TrackProducts(products, k + 1,
                 Remember(states, pid, orders),
                 IF pid \in DOMAIN states
                 THEN Sampled(analytics, pid,
                              Abs(orders[1] - states[pid][1])
                              + Abs(orders[2] - states[pid][2]))
                 ELSE analytics)

\* line 61: the products whose average change is below the threshold
latest_stable(analytics) ==
    LET stable == SelectSeq(analytics,
                      LAMBDA a : RLess(a.avg_per_min, <<STABILITY_THRESHOLD, 1>>))
    IN  [k \in 1..Len(stable) |-> stable[k].product_id]

ReportDueNever(cycle) == FALSE

\* `if cycle_count % REPORT_INTERVAL_CYCLES == 0`
ReportDue(cycle) == cycle % REPORT_INTERVAL_CYCLES = 0

\* time.strftime: the reading of the clock, which grows with the cycles
Clock(cycle) == cycle

\* last_updated_utc before the first report: None, earlier than every reading
NeverUpdated == 0

\* lines 62-65
Published(analytics, cycle) ==
    [last_updated_utc |-> Clock(cycle),
     stable_items |-> latest_stable(analytics),
     is_analyzing |-> FALSE]

\* the module as loaded and the thread as started
InitFetchur ==
    /\ program = "fetchur.py"
    /\ ResolversIdle
    /\ AnalysersIdle
    /\ files = <<>>
    /\ cycle_count = 0
    /\ item_states = <<>>
    /\ item_analytics = <<>>
    /\ shared_data = [last_updated_utc |-> NeverUpdated, stable_items |-> <<>>,
                      is_analyzing |-> TRUE]
    /\ profit_report_cache = <<>>
    /\ parsed_recipes = <<>>
    /\ task = "running"
    /\ call = NoCall
    /\ result = <<>>

\* one round of the loop of run_volatility_analysis, the sleep included
Cycle ==
    \E response \in Responses :
        /\ program = "fetchur.py"
        /\ cycle_count < MaxCycles
        /\ cycle_count' = cycle_count + 1
        /\ call' = [fn |-> "run_volatility_analysis", raised |-> response.raised]
        /\ IF response.raised
           THEN UNCHANGED <<item_states, item_analytics, shared_data>>
           ELSE LET tracked == TrackProducts(response.products, 1,
                                             item_states, item_analytics)
                IN  /\ item_states' = tracked.item_states
                    /\ item_analytics' = tracked.item_analytics
                    /\ shared_data' =
                           IF ReportDue(cycle_count + 1)
                           THEN Published(tracked.item_analytics, cycle_count + 1)
                           ELSE shared_data
        /\ UNCHANGED <<program, result, resolvers, files, analysers,
                       profit_report_cache, parsed_recipes, task>>

\* analyze_for_profit(stable_item_ids) with the answer of its own request;
\* of the table it returns the model keeps the title and the items analysed
analyze_for_profit(stable_item_ids, response) ==
    IF stable_item_ids = <<>>
    THEN <<"No stable items available to analyze yet.">>
    ELSE IF response.raised
    THEN <<"Error fetching data from Hypixel API: {}">>
    ELSE <<"--- Top Profitable & Stable Bazaar Flips ---", stable_item_ids>>

\* the /flipper route: the two reads under data_lock, then the page
get_flipper_results ==
    \E response \in Responses :
        /\ program = "fetchur.py"
        /\ call' = [fn |-> "get_flipper_results", raised |-> response.raised]
        /\ result' = IF shared_data.is_analyzing
                     THEN <<"The server has just started.">>
                     ELSE analyze_for_profit(shared_data.stable_items, response)
        /\ UNCHANGED <<program, resolvers, others>>
(* ---------------- bot-test/old/flipper_bot.py: update_fusion_data ------ *)

\* flipper_bot.py: HEADERS.keys()
HEADERS == <<"ib_is", "bo_is", "ib_so", "bo_so">>

\* the shards of the recipe file
Shards == {"Alpha", "Beta", "Stridersurfer"}

\* the place of a shard name in the order of strings
NameRank(name) ==
    IF name = "Alpha" THEN 1 ELSE IF name = "Beta" THEN 2 ELSE 3

\* get_bazaar_id_from_name: MANUAL_ID_OVERRIDES first, else SHARD_ and the
\* name in upper case
get_bazaar_id_from_name(name) ==
    IF name = "Stridersurfer" THEN "SHARD_STRIDER_SURFER"
    ELSE IF name = "Alpha" THEN "SHARD_ALPHA"
    ELSE "SHARD_BETA"

\* a cell of the recipe file the pattern (\d+)x\s+([\w\s'-]+) matches
Cell(quantity, name) ==
    [match |-> TRUE, blank |-> FALSE, quantity |-> quantity, name |-> name]

\* an empty cell
Blank == [match |-> FALSE, blank |-> TRUE, quantity |-> 0, name |-> ""]

\* a cell with text the pattern does not match
Unmatched == [match |-> FALSE, blank |-> FALSE, quantity |-> 0, name |-> ""]

\* {'name': name, 'quantity': quantity}
Shard(cell) == [name |-> cell.name, quantity |-> cell.quantity]

\* parsed_inputs.sort(key=name) of at most two inputs
SortedByName(parsed_inputs) ==
    IF Len(parsed_inputs) = 2
       /\ NameRank(parsed_inputs[2].name) < NameRank(parsed_inputs[1].name)
    THEN <<parsed_inputs[2], parsed_inputs[1]>>
    ELSE parsed_inputs

\* lines 75-92: the recipes of one row, the output cells from place k on
RECURSIVE RowRecipes(_, _, _)
RowRecipes(parsed_inputs, row, k) ==
    IF k > Len(row) \/ k > 5 THEN <<>>
    ELSE IF row[k].match
    THEN <<[inputs |-> parsed_inputs,
            outputs |-> <<Shard(row[k])>>,
            recipe_str |-> <<parsed_inputs, Shard(row[k])>>]>>
         \o RowRecipes(parsed_inputs, row, k + 1)
    ELSE RowRecipes(parsed_inputs, row, k + 1)

\* lines 60-92: the rows after the two header rows, from row r on
RECURSIVE ParseRows(_, _)
ParseRows(rows, r) ==
    IF r > Len(rows) THEN <<>>
    ELSE LET cells == SubSeq(rows[r], 1, Min(2, Len(rows[r])))
             matched == SelectSeq(cells, LAMBDA cell : cell.match)
             parsed_inputs == [k \in 1..Len(matched) |-> Shard(matched[k])]
         IN  IF Len(parsed_inputs) # 2 THEN ParseRows(rows, r + 1)
             ELSE RowRecipes(SortedByName(parsed_inputs), rows[r], 3)
                  \o ParseRows(rows, r + 1)

\* the recipe file: missing, or its rows after the header
NoCsv == [found |-> FALSE, rows |-> <<>>]

Csv(rows) == [found |-> TRUE, rows |-> rows]

\* parse_fusion_csv(filename)
parse_fusion_csv(csv) ==
    IF ~csv.found THEN <<>> ELSE ParseRows(csv.rows, 1)

\* get_all_shard_names_from_recipes(recipes)
get_all_shard_names_from_recipes(fusions) ==
    UNION {{fusions[k].inputs[1].name, fusions[k].inputs[2].name,
            fusions[k].outputs[1].name} : k \in 1..Len(fusions)}

\* fetch_raw_bazaar_data returns None: the request raises, the status is an
\* error or the document says success is false
FetchNone == [none |-> TRUE, products |-> <<>>]

\* fetch_raw_bazaar_data returns data["products"]: per product id the
\* pricePerUnit of sell_summary and of buy_summary, best first
RawData(products) == [none |-> FALSE, products |-> products]

\* `not raw_data`: None, or products without an entry
Falsy(raw_data) == raw_data.none \/ DOMAIN raw_data.products = {}

FetchFailedNever(raw_api_data) == FALSE

\* update_fusion_data: `if not raw_api_data`
FetchFailed(raw_api_data) == Falsy(raw_api_data)

\* summary[0]["pricePerUnit"] if summary else None
FirstPrice(summary) == IF summary # <<>> THEN <<summary[1]>> ELSE None

\* process_shard_prices(shard_names, raw_data)
process_shard_prices(shard_names, raw_data) ==
    IF Falsy(raw_data) THEN <<>>
    ELSE [name \in shard_names |->
            LET api_id == get_bazaar_id_from_name(name)
                prod == IF api_id \in DOMAIN raw_data.products
                        THEN raw_data.products[api_id]
                        ELSE [sell_summary |-> <<>>, buy_summary |-> <<>>]
            IN  [buy_order_cost |-> FirstPrice(prod.sell_summary),
                 insta_buy_cost |-> FirstPrice(prod.buy_summary)]]

\* `not price_data or ... is None`
Unpriced(shard_prices, name) ==
    \/ name \notin DOMAIN shard_prices
    \/ shard_prices[name].insta_buy_cost = None
    \/ shard_prices[name].buy_order_cost = None

\* lines 148-174: the four profits of a recipe whose shards are all priced
Profits(fusion, shard_prices) ==
    LET in1 == fusion.inputs[1]
        in2 == fusion.inputs[2]
        out == fusion.outputs[1]
        total_ib_cost == shard_prices[in1.name].insta_buy_cost[1] * in1.quantity
                         + shard_prices[in2.name].insta_buy_cost[1] * in2.quantity
        total_bo_cost == shard_prices[in1.name].buy_order_cost[1] * in1.quantity
                         + shard_prices[in2.name].buy_order_cost[1] * in2.quantity
        total_is_rev == shard_prices[out.name].buy_order_cost[1] * out.quantity
        total_so_rev == shard_prices[out.name].insta_buy_cost[1] * out.quantity
    IN  [ib_is |-> total_is_rev - total_ib_cost,
         bo_is |-> total_is_rev - total_bo_cost,
         ib_so |-> total_so_rev - total_ib_cost,
         bo_so |-> total_so_rev - total_bo_cost]

\* lines 148-182 for one strategy: the profitable recipes from place k on
RECURSIVE ProfitList(_, _, _, _)
ProfitList(fusions, shard_prices, key, k) ==
    IF k > Len(fusions) THEN <<>>
    ELSE LET fusion == fusions[k]
             priced == /\ ~Unpriced(shard_prices, fusion.inputs[1].name)
                       /\ ~Unpriced(shard_prices, fusion.inputs[2].name)
                       /\ ~Unpriced(shard_prices, fusion.outputs[1].name)
         IN  (IF priced /\ Profits(fusion, shard_prices)[key] > 0
              THEN <<[recipe_str |-> fusion.recipe_str,
                      profit |-> Profits(fusion, shard_prices)[key],
                      output_name |-> fusion.outputs[1].name]>>
              ELSE <<>>)
             \o ProfitList(fusions, shard_prices, key, k + 1)

\* profit_list.sort(key=profit, reverse=True): a stable sort, the elements
\* from place k on inserted into sorted
RECURSIVE SortedByProfit(_, _, _)
SortedByProfit(profit_list, k, sorted) ==
    IF k > Len(profit_list) THEN sorted
    ELSE LET x == profit_list[k]
             before == Cardinality({j \in 1..Len(sorted) :
                                       sorted[j].profit >= x.profit})
         IN  SortedByProfit(profit_list, k + 1,
                 SubSeq(sorted, 1, before) \o <<x>>
                 \o SubSeq(sorted, before + 1, Len(sorted)))

\* lines 188-194: the first item of every output, from place k on
RECURSIVE UniqueTop(_, _, _)
UniqueTop(profit_list, k, seen_outputs) ==
    IF k > Len(profit_list) THEN <<>>
    ELSE IF profit_list[k].output_name \in seen_outputs
    THEN UniqueTop(profit_list, k + 1, seen_outputs)
    ELSE <<profit_list[k]>>
         \o UniqueTop(profit_list, k + 1,
                      seen_outputs \cup {profit_list[k].output_name})

\* calculate_all_profits(recipes, prices)
calculate_all_profits(fusions, shard_prices) ==
    [key \in {HEADERS[k] : k \in 1..Len(HEADERS)} |->
        UniqueTop(SortedByProfit(ProfitList(fusions, shard_prices, key, 1), 1, <<>>),
                  1, {})]

\* the recipe files of the model
CsvFiles ==
    {NoCsv,
     Csv(<<<<Cell(1, "Alpha"), Unmatched, Cell(1, "Beta")>>>>),
     Csv(<<<<Cell(2, "Beta"), Cell(1, "Alpha"), Cell(1, "Stridersurfer"), Blank, Blank>>>>),
     Csv(<<<<Cell(2, "Beta"), Cell(1, "Alpha"), Cell(1, "Stridersurfer"), Blank, Blank>>,
           <<Cell(1, "Alpha"), Cell(1, "Alpha"), Cell(3, "Beta"), Unmatched,
             Cell(1, "Stridersurfer")>>>>)}

\* sell_summary and buy_summary of one product
Summaries(sell, buy) == [sell_summary |-> sell, buy_summary |-> buy]

\* what fetch_raw_bazaar_data may return
RawAnswers ==
    {FetchNone, RawData(<<>>),
     RawData([SHARD_ALPHA |-> Summaries(<<1>>, <<2>>),
              SHARD_BETA |-> Summaries(<<1>>, <<2>>),
              SHARD_STRIDER_SURFER |-> Summaries(<<10, 9>>, <<12>>)]),
     RawData([SHARD_ALPHA |-> Summaries(<<3>>, <<4>>),
              SHARD_BETA |-> Summaries(<<1>>, <<2>>),
              SHARD_STRIDER_SURFER |-> Summaries(<<6>>, <<8>>)]),
     RawData([SHARD_ALPHA |-> Summaries(<<1>>, <<2>>),
              SHARD_BETA |-> Summaries(<<1>>, <<>>),
              SHARD_STRIDER_SURFER |-> Summaries(<<10>>, <<12>>)]),
     RawData([SHARD_ALPHA |-> Summaries(<<1>>, <<2>>),
              SHARD_STRIDER_SURFER |-> Summaries(<<10>>, <<12>>)])}

\* the module as loaded: no cache, no recipes, the task not started
InitFlipper ==
    /\ program = "flipper_bot.py"
    /\ ResolversIdle
    /\ AnalysersIdle
    /\ files \in CsvFiles
    /\ cycle_count = 0
    /\ item_states = <<>>
    /\ item_analytics = <<>>
    /\ shared_data = <<>>
    /\ profit_report_cache = None
    /\ parsed_recipes = <<>>
    /\ task = "none"
    /\ call = NoCall
    /\ result = <<>>

\* on_ready: the task is started unless it is running
on_ready ==
    /\ program = "flipper_bot.py"
    /\ task # "running"
    /\ task' = "running"
    /\ call' = [fn |-> "on_ready", raw_api_data |-> FetchNone]
    /\ UNCHANGED <<program, result, resolvers, files, analysers, cycle_count,
                   item_states, item_analytics, shared_data,
                   profit_report_cache, parsed_recipes>>

\* one run of the task update_fusion_data
update_fusion_data ==
    \E raw_api_data \in RawAnswers :
        LET parsed == IF parsed_recipes = <<>>
                      THEN parse_fusion_csv(files)
                      ELSE parsed_recipes
        IN  /\ program = "flipper_bot.py"
            /\ task = "running"
            /\ call' = [fn |-> "update_fusion_data", raw_api_data |-> raw_api_data]
            /\ parsed_recipes' = parsed
            /\ task' = IF parsed = <<>> THEN "stopped" ELSE task
            /\ profit_report_cache' =
                   IF parsed = <<>> \/ FetchFailed(raw_api_data)
                   THEN profit_report_cache
                   ELSE calculate_all_profits(parsed,
                            process_shard_prices(
                                get_all_shard_names_from_recipes(parsed),
                                raw_api_data))
            /\ UNCHANGED <<program, result, resolvers, files, analysers,
                           cycle_count, item_states, item_analytics, shared_data>>

\* StrategySelect.callback for the chosen strategy
callback ==
    \E k \in 1..Len(HEADERS) :
        /\ program = "flipper_bot.py"
        /\ call' = [fn |-> "callback", raw_api_data |-> FetchNone]
        /\ result' = IF profit_report_cache = None
                     THEN <<"Data is still loading, please wait a moment...">>
                     ELSE <<HEADERS[k],
                            SubSeq(profit_report_cache[HEADERS[k]], 1,
                                   Min(10, Len(profit_report_cache[HEADERS[k]])))>>
        /\ UNCHANGED <<program, resolvers, others>>

InitFetch == InitFetchur \/ InitFlipper

NextFetch ==
    \/ Cycle
    \/ get_flipper_results
    \/ on_ready
    \/ update_fusion_data
    \/ callback

SpecFetch == InitFetch /\ [][NextFetch]_vars

\* the step is a round of run_volatility_analysis whose request raised
FailedCycle ==
    /\ program = "fetchur.py"
    /\ cycle_count' = cycle_count + 1
    /\ call'.raised

\* the step is a run of update_fusion_data whose fetch returned None
FailedUpdate ==
    /\ program = "flipper_bot.py"
    /\ call'.fn = "update_fusion_data"
    /\ call'.raw_api_data.none

\* C21: a failed price fetch leaves the data computed before as it was: a
\* run of update_fusion_data whose fetch fails keeps profit_report_cache,
\* which is never set back to None, and a round of run_volatility_analysis
\* whose request raises keeps item_states, item_analytics and shared_data
C21_FailedFetchKeepsData ==
    [][/\ FailedCycle => UNCHANGED <<item_states, item_analytics, shared_data>>
       /\ FailedUpdate => profit_report_cache' = profit_report_cache
       /\ (program = "flipper_bot.py" /\ profit_report_cache # None)
          => profit_report_cache' # None]_vars

\* the request of a round raised on which a report was due, with samples
\* taken and a list published before
C21_Witness ==
    /\ program = "fetchur.py"
    /\ call.fn = "run_volatility_analysis"
    /\ call.raised
    /\ cycle_count = 2 * REPORT_INTERVAL_CYCLES
    /\ Len(item_analytics) = 2
    /\ shared_data.last_updated_utc = REPORT_INTERVAL_CYCLES
    /\ shared_data.stable_items = <<"P">>

\* a fetch of update_fusion_data failed with profitable recipes in the cache
C21_WitnessCache ==
    /\ program = "flipper_bot.py"
    /\ call.fn = "update_fusion_data"
    /\ call.raw_api_data.none
    /\ profit_report_cache # None
    /\ Len(profit_report_cache["bo_is"]) = 2

\* the step is a round of run_volatility_analysis
CycleStep ==
    /\ program = "fetchur.py"
    /\ cycle_count' = cycle_count + 1

\* the round just made published the stable items of its analytics
Republished ==
    /\ shared_data'.stable_items = latest_stable(item_analytics')
    /\ shared_data'.last_updated_utc = Clock(cycle_count')
    /\ ~shared_data'.is_analyzing

====
